---------------------------- MODULE Spec2Model ----------------------------
(***************************************************************************)
(* StatusValidator: the cache store (cache.py), the provider-fallback      *)
(* client (llm_client.py) and the batch driver with its reconciliation of  *)
(* the destination sheet (main.py, pipeline.py).                           *)
(*                                                                         *)
(* The specifications that share the module:                               *)
(*   CacheSpec  CacheStore driven by arbitrary store_payload/get_payload   *)
(*              calls;                                                     *)
(*   ThreadSpec two threads calling one CacheStore, statement by statement;*)
(*   LLMSpec    one LLMClient.generate call, request by request;           *)
(*   Spec       main(): repeated runs over a source sheet, a cache file    *)
(*              and a destination sheet that outlive the process;          *)
(*   ReconcileSpec  main() from the point where validate_entry has the     *)
(*              provider's answer, over a new cache file;                  *)
(*   PoolSpec   one validate_batch_parallel call (parallel.py), task by    *)
(*              task;                                                      *)
(*   StartupSpec  main() from load_config on, over the configurations a    *)
(*              user may write, then one run;                              *)
(*   HashSpec   compute_comment_hash on two arguments;                     *)
(*   CorruptSpec  main() over a cache file with records that are not JSON; *)
(*   ClientSpec two threads that call generate on one LLMClient and then   *)
(*              read its model_name;                                       *)
(*   LLMLiveSpec  generate over one or two providers, every request        *)
(*              answered;                                                  *)
(*   RepeatSpec generate calls one after the other on one client;          *)
(*   AppendSpec one append of result rows and its bookkeeping.             *)
(*                                                                         *)
(* Texts are sequences of one-character strings so that strip() and        *)
(* casefold() are computed, not assumed.  An optional value is a sequence  *)
(* of length 0 (None) or 1.                                                *)
(***************************************************************************)
EXTENDS Integers, Sequences, FiniteSets, TLC

VARIABLES
    \* ---- CacheStore (cache.py) ----
    cache,          \* rows of table llm_cache
    lastGet,        \* the most recent get_payload call: its key and what it returned
    lastPut,        \* history: per primary key, the arguments of the latest store_payload
    prevPut,        \* history: per primary key, the arguments of the store_payload before that
    nWrites,        \* number of calls so far (CacheSpec, ThreadSpec)
    lock,           \* self._lock: the thread that holds it, 0 when free
    threads,        \* per thread: where it is in its call, and the call
    linear,         \* history: the calls in the order their statement ran
    \* ---- LLMClient (llm_client.py) ----
    llm_pc,                 \* "idle", "request" (about to send one), "returned", "raised"
    providers,              \* self._providers, as the sequence of their priorities
    reasoning_conf,         \* provider.config.reasoning_enabled, per provider
    key_given,              \* prompt_cache_key is not None (argument of generate)
    cur_provider,           \* the provider of the for loop in generate
    attempt,                \* the attempt of the for loop in _generate_with_provider
    reasoning_enabled,      \* local of _generate_with_provider
    prompt_cache_enabled,   \* local of _generate_with_provider
    current_messages,       \* the system hints appended to messages
    parsed_content,         \* the content json.loads parsed for the return
    last_error_messages,    \* local of generate
    last_model_name,        \* self._last_model_name
    llm_result,             \* what generate returned, if it returned
    requested,              \* history: providers sent a request in this call
    served_by,              \* history: provider whose response was parsed and returned
    provider_errors,        \* history: what _generate_with_provider raised, per provider
    answered,               \* history: requests to the provider asked last that were
                            \* answered by something else than a feature rejection
    transient,              \* history: the last answer was a transient failure
    \* ---- main() (main.py) ----
    identifier_column,      \* columns.identifier is configured and in the source header
    batch_size,             \* config.batch_size
    source,                 \* the data rows of the source sheet, as build_entries reads them
    target,                 \* the destination sheet: its header row and the data rows below
    pc,                     \* "idle", "rows", "flush", "finish", "done", "crashed"
    run_no,                 \* number of runs started so far; the run's clock
    args,                   \* the command line of the current run
    locals,                 \* the local variables of main(), under their names
    trace,                  \* history: what the current run did for each entry it reached
    prev_run,               \* history: the run completed before the current one
    edited,                 \* history: source rows edited since the last run started
    exit_code,              \* the exit status of the process, once it has one
    cache_store,            \* the CacheStore of the run: "none", "open", "closed"
    unit,                   \* history: the flush an exception cut short, if any
    flushes,                \* history: per flush of the run, the entries whose
                            \* verdicts its requests carried
    requests,               \* history: number of write requests the run has sent
                            \* to the destination
    stdout,                 \* what the run printed with print(json.dumps(...))
    resumed,                \* history: the process before this one did not complete
    \* ---- validate_batch_parallel (parallel.py) ----
    pool_pc,                \* "off", "called", "collecting", "returned"
    pool_entries,           \* the argument entries
    max_workers,            \* the argument max_workers
    future_to_entry,        \* per submitted task: its entry, where the task is
                            \* and what validate_entry_with_retry returned
    successful_results,     \* local, and first element of the return value
    failed_entries,         \* local, and second element of the return value
    \* ---- main() before the row loop (main.py 109-133) ----
    start_pc,               \* "off", "load_config", "build_entries", "llm_client",
                            \* "ready", "returned" (no data rows), "fatal"
    config,                 \* the configuration file and the environment
    \* ---- compute_comment_hash (cache.py) ----
    comments,               \* the arguments of two calls
    hashes,                 \* what the two calls returned, once they have
    \* ---- threads sharing one LLMClient ----
    callers,                \* per thread: where it is between its call of generate
                            \* and its read of model_name, the provider that served
                            \* the call, and the model name it read
    \* ---- one append of result rows ----
    append_call,            \* the rows handed to append_results, the response,
                            \* and the bookkeeping as it was before
    \* ---- successive generate calls ----
    earlier                 \* what the generate call before this one had disabled
                            \* when it ended, and for which provider

threadVars == <<lock, threads, linear>>

cacheVars == <<cache, lastGet, lastPut, prevPut, nWrites, threadVars>>

llmVars ==
    <<llm_pc, providers, reasoning_conf, key_given, cur_provider, attempt,
      reasoning_enabled, prompt_cache_enabled, current_messages, parsed_content,
      last_error_messages, last_model_name, llm_result, requested, served_by,
      provider_errors, answered, transient>>

driverVars ==
    <<identifier_column, batch_size, source, target, pc, run_no, args, locals,
      trace, prev_run, edited, exit_code, cache_store, unit, flushes, requests,
      stdout, resumed>>

poolVars ==
    <<pool_pc, pool_entries, max_workers, future_to_entry, successful_results,
      failed_entries>>

startVars == <<start_pc, config>>

hashVars == <<comments, hashes>>

callVars == <<callers, append_call, earlier>>

vars ==
    <<cacheVars, llmVars, driverVars, poolVars, startVars, hashVars, callVars>>

-----------------------------------------------------------------------------
(* Bounds of the model *)

MaxWrites == 3

MaxProviders == 2

-----------------------------------------------------------------------------
(* Optional values *)

None == <<>>

Some(x) == <<x>>

IsSome(o) == Len(o) = 1

Get(o) == o[1]

-----------------------------------------------------------------------------
(* Texts *)

\* the characters str.strip() removes, as far as the texts of the model go
IsSpace(ch) == ch \in {" ", "\t"}

RECURSIVE LStrip(_)
LStrip(s) == IF s # <<>> /\ IsSpace(Head(s)) THEN LStrip(Tail(s)) ELSE s

RECURSIVE RStrip(_)
RStrip(s) ==
    IF s # <<>> /\ IsSpace(s[Len(s)]) THEN RStrip(SubSeq(s, 1, Len(s) - 1)) ELSE s

Strip_Leading(s) == LStrip(s)

\* str.strip()
Strip(s) == RStrip(LStrip(s))

FoldChar(ch) == CASE ch = "A" -> "a" [] ch = "B" -> "b" [] OTHER -> ch

\* str.casefold()
Casefold(s) == [i \in 1..Len(s) |-> FoldChar(s[i])]

\* sha256(...).hexdigest(), taken to be collision free on the texts of the model
Sha256(s) == <<"sha256">> \o s

compute_comment_hash_Blind(comment) == Sha256(<<>>)

\* compute_comment_hash: a missing comment is passed as None
compute_comment_hash(comment) ==
    Sha256(Strip(IF IsSome(comment) THEN Get(comment) ELSE <<>>))

-----------------------------------------------------------------------------
(* JSON texts: json.dumps of an object, or a text json.loads rejects *)

NoObject == [is_valid |-> FALSE, about_status |-> "", about_comment |-> <<>>]

json_dumps(obj) == [kind |-> "json", obj |-> obj]

CorruptJson == [kind |-> "junk", obj |-> NoObject]

\* json.loads: None stands for JSONDecodeError
json_loads(text) == IF text.kind = "json" THEN Some(text.obj) ELSE None

-----------------------------------------------------------------------------
(* CacheStore *)

SamePrimaryKey(r, k) ==
    /\ r.source_id = k.source_id
    /\ r.sheet_name = k.sheet_name
    /\ r.row_number = k.row_number

SelectWhere_NoHash(r, k) ==
    /\ r.source_id = k.source_id
    /\ r.sheet_name = k.sheet_name
    /\ r.row_number = k.row_number
    /\ r.status_text = k.status_text

\* The WHERE clause of get_payload
SelectWhere(r, k) ==
    /\ r.source_id = k.source_id
    /\ r.sheet_name = k.sheet_name
    /\ r.row_number = k.row_number
    /\ r.status_text = k.status_text
    /\ r.comment_hash = k.comment_hash

\* get_payload: fetchone() of the SELECT, then json.loads; None when no row
\* matches or the stored text does not parse
get_payload(tbl, k) ==
    LET rows == {r \in tbl : SelectWhere(r, k)}
    IN  IF rows = {} THEN None
        ELSE json_loads((CHOOSE r \in rows : TRUE).payload_json)

NewRow(k, payload) ==
    [source_id |-> k.source_id, sheet_name |-> k.sheet_name,
     row_number |-> k.row_number, status_text |-> k.status_text,
     comment_hash |-> k.comment_hash, payload_json |-> json_dumps(payload)]

store_payload_KeepGuards(tbl, k, payload) ==
    LET conflict == {r \in tbl : SamePrimaryKey(r, k)}
    IN  IF conflict = {} THEN tbl \cup {NewRow(k, payload)}
        ELSE (tbl \ conflict) \cup
             {[r EXCEPT !.payload_json = json_dumps(payload)] : r \in conflict}

\* INSERT ... ON CONFLICT(source_id, sheet_name, row_number) DO UPDATE SET
\* status_text, comment_hash, payload_json (updated_at is never read and is
\* left out of the rows)
store_payload(tbl, k, payload) ==
    LET conflict == {r \in tbl : SamePrimaryKey(r, k)}
    IN  IF conflict = {} THEN tbl \cup {NewRow(k, payload)}
        ELSE (tbl \ conflict) \cup
             {[r EXCEPT !.status_text = k.status_text,
                        !.comment_hash = k.comment_hash,
                        !.payload_json = json_dumps(payload)] : r \in conflict}

-----------------------------------------------------------------------------
(* CacheSpec: any sequence of store_payload and get_payload calls *)

CacheSources == {"s1", "s2"}

CacheSheets == {"t1", "t2"}

CacheRows == {2, 3}

Statuses == {"Done", "WIP"}

Comments == {<<"o">>, <<" ", "o">>, <<"n">>}

Hashes == {compute_comment_hash(Some(c)) : c \in Comments}

AllCacheKeys ==
    [source_id : CacheSources, sheet_name : CacheSheets, row_number : CacheRows,
     status_text : Statuses, comment_hash : Hashes]

BaseKey ==
    [source_id |-> "s1", sheet_name |-> "t1", row_number |-> 2,
     status_text |-> "Done", comment_hash |-> compute_comment_hash(Some(<<"o">>))]

FieldsApart(j, k) ==
    Cardinality({f \in DOMAIN j : j[f] # k[f]})

\* The keys of the calls: the base key and every key one field away from it
CacheKeys == {k \in AllCacheKeys : FieldsApart(k, BaseKey) <= 1}

CachePayloads ==
    {[is_valid |-> b, about_status |-> "Done", about_comment |-> <<"o">>] :
        b \in BOOLEAN}

PrimaryKeyOf(k) ==
    [source_id |-> k.source_id, sheet_name |-> k.sheet_name,
     row_number |-> k.row_number]

PrimaryKeys == {PrimaryKeyOf(k) : k \in CacheKeys}

ThreadQuiet ==
    /\ lock = 0
    /\ threads = <<>>
    /\ linear = <<>>

CacheQuiet ==
    /\ lastGet = None
    /\ lastPut = [pk \in PrimaryKeys |-> None]
    /\ prevPut = [pk \in PrimaryKeys |-> None]
    /\ nWrites = 0
    /\ ThreadQuiet

LlmQuiet ==
    /\ llm_pc = "off"
    /\ providers = <<>>
    /\ reasoning_conf = <<>>
    /\ key_given = FALSE
    /\ cur_provider = 0
    /\ attempt = 0
    /\ reasoning_enabled = FALSE
    /\ prompt_cache_enabled = FALSE
    /\ current_messages = <<>>
    /\ parsed_content = None
    /\ last_error_messages = <<>>
    /\ last_model_name = None
    /\ llm_result = None
    /\ requested = {}
    /\ served_by = 0
    /\ provider_errors = <<>>
    /\ answered = 0
    /\ transient = FALSE

NoArgs == [dry_run |-> FALSE, force |-> FALSE, checkdate |-> FALSE]

EmptySheet == [header |-> None, rows |-> <<>>]

DriverQuiet ==
    /\ identifier_column = FALSE
    /\ batch_size = 0
    /\ source = <<>>
    /\ target = EmptySheet
    /\ pc = "off"
    /\ run_no = 0
    /\ args = NoArgs
    /\ locals = <<>>
    /\ trace = <<>>
    /\ prev_run = None
    /\ edited = {}
    /\ exit_code = None
    /\ cache_store = "none"
    /\ unit = None
    /\ flushes = <<>>
    /\ requests = 0
    /\ stdout = None
    /\ resumed = FALSE

CallQuiet == callers = <<>> /\ append_call = None /\ earlier = None

HashQuiet ==
    /\ comments = <<>>
    /\ hashes = <<>>

StartQuiet ==
    /\ start_pc = "off"
    /\ config = <<>>

PoolQuiet ==
    /\ pool_pc = "off"
    /\ pool_entries = <<>>
    /\ max_workers = 0
    /\ future_to_entry = <<>>
    /\ successful_results = <<>>
    /\ failed_entries = <<>>

CacheInit ==
    /\ LlmQuiet
    /\ PoolQuiet
    /\ StartQuiet
    /\ HashQuiet
    /\ CallQuiet
    /\ DriverQuiet
    /\ cache = {}
    /\ lastGet = None
    /\ lastPut = [pk \in PrimaryKeys |-> None]
    /\ prevPut = [pk \in PrimaryKeys |-> None]
    /\ nWrites = 0
    /\ ThreadQuiet

CacheStorePayload ==
    \E k \in CacheKeys, p \in CachePayloads :
        /\ nWrites < MaxWrites
        /\ cache' = store_payload(cache, k, p)
        /\ lastPut' = [lastPut EXCEPT ![PrimaryKeyOf(k)] = Some([key |-> k, payload |-> p])]
        /\ prevPut' = [prevPut EXCEPT ![PrimaryKeyOf(k)] = lastPut[PrimaryKeyOf(k)]]
        /\ lastGet' = None
        /\ nWrites' = nWrites + 1
        /\ UNCHANGED <<threadVars, llmVars, driverVars, poolVars, startVars, hashVars, callVars>>

CacheGetPayload ==
    \E k \in CacheKeys :
        /\ lastGet = None
        /\ lastGet' = Some([key |-> k, result |-> get_payload(cache, k)])
        /\ UNCHANGED <<cache, lastPut, prevPut, nWrites>>
        /\ UNCHANGED <<threadVars, llmVars, driverVars, poolVars, startVars, hashVars, callVars>>

CacheNext == CacheStorePayload \/ CacheGetPayload

CacheSpec == CacheInit /\ [][CacheNext]_vars

(* C6: get_payload returns a payload only when a stored row equals the     *)
(* lookup key in all five fields, and then that row's payload; a lookup    *)
(* that differs from every stored row in some field returns absent.        *)
C6_ExactFiveFieldMatch ==
    IsSome(lastGet) =>
        LET g == Get(lastGet)
        IN  IsSome(g.result) =>
                \E r \in cache :
                    /\ r.source_id = g.key.source_id
                    /\ r.sheet_name = g.key.sheet_name
                    /\ r.row_number = g.key.row_number
                    /\ r.status_text = g.key.status_text
                    /\ r.comment_hash = g.key.comment_hash
                    /\ r.payload_json = json_dumps(Get(g.result))

\* A lookup came back absent although a row one field away from its key is stored
C6_Witness ==
    /\ IsSome(lastGet)
    /\ Get(lastGet).result = None
    /\ \E r \in cache :
        /\ SamePrimaryKey(r, Get(lastGet).key)
        /\ r.status_text = Get(lastGet).key.status_text
        /\ r.comment_hash # Get(lastGet).key.comment_hash

(* C7: store_payload is a whole-record upsert: at most one row per         *)
(* (source_id, sheet_name, row_number), carrying the guard fields and the  *)
(* payload of the latest write for that triple; a lookup with that write's *)
(* key returns its payload, a lookup with other guard fields is absent.    *)
C7_WholeRecordUpsert ==
    /\ \A r1, r2 \in cache : SamePrimaryKey(r1, r2) => r1 = r2
    /\ \A pk \in PrimaryKeys :
        IF IsSome(lastPut[pk])
        THEN NewRow(Get(lastPut[pk]).key, Get(lastPut[pk]).payload) \in cache
        ELSE \A r \in cache : ~SamePrimaryKey(r, pk)
    /\ IsSome(lastGet) =>
        LET g == Get(lastGet)
            w == lastPut[PrimaryKeyOf(g.key)]
        IN  g.result = IF IsSome(w) /\ Get(w).key = g.key
                       THEN Some(Get(w).payload) ELSE None

\* A triple was written twice with different guard fields, and a lookup with
\* the earlier write's key came back absent
C7_Witness ==
    /\ IsSome(lastGet)
    /\ Get(lastGet).result = None
    /\ LET pk == PrimaryKeyOf(Get(lastGet).key)
       IN  /\ IsSome(prevPut[pk])
           /\ Get(prevPut[pk]).key = Get(lastGet).key
           /\ Get(lastPut[pk]).key # Get(lastGet).key

-----------------------------------------------------------------------------
(* ThreadSpec: threads of a worker pool calling one CacheStore *)

Threads == {1, 2}

\* two keys of one row that differ in the comment hash, and a key of another row
ThreadKeys ==
    {BaseKey,
     [BaseKey EXCEPT !.comment_hash = compute_comment_hash(Some(<<"n">>))],
     [BaseKey EXCEPT !.row_number = 3]}

ThreadCalls ==
    {[op |-> "get", key |-> k, payload |-> NoObject] : k \in ThreadKeys}
        \cup {[op |-> "store", key |-> k, payload |-> p] :
                  k \in ThreadKeys, p \in CachePayloads}

NoCall == [op |-> "", key |-> BaseKey, payload |-> NoObject]

acquire_Unguarded(holder) == TRUE

\* "with self._lock:" blocks until no thread holds the lock
acquire(holder) == holder = 0

ThreadInit ==
    /\ LlmQuiet
    /\ PoolQuiet
    /\ StartQuiet
    /\ HashQuiet
    /\ CallQuiet
    /\ DriverQuiet
    /\ cache = {}
    /\ lastGet = None
    /\ lastPut = [pk \in PrimaryKeys |-> None]
    /\ prevPut = [pk \in PrimaryKeys |-> None]
    /\ nWrites = 0
    /\ lock = 0
    /\ threads = [t \in Threads |-> [at |-> "idle", call |-> NoCall]]
    /\ linear = <<>>

\* a thread calls get_payload or store_payload and reaches "with self._lock:"
ThreadCall(t) ==
    /\ threads[t].at = "idle"
    /\ nWrites < MaxWrites
    /\ \E c \in ThreadCalls :
        threads' = [threads EXCEPT ![t] = [at |-> "waiting", call |-> c]]
    /\ nWrites' = nWrites + 1
    /\ UNCHANGED <<cache, lastGet, lastPut, prevPut, lock, linear>>
    /\ UNCHANGED <<llmVars, driverVars, poolVars, startVars, hashVars, callVars>>

\* the thread enters the with block
ThreadAcquire(t) ==
    /\ threads[t].at = "waiting"
    /\ acquire(lock)
    /\ lock' = t
    /\ threads' = [threads EXCEPT ![t].at = "locked"]
    /\ UNCHANGED <<cache, lastGet, lastPut, prevPut, nWrites, linear>>
    /\ UNCHANGED <<llmVars, driverVars, poolVars, startVars, hashVars, callVars>>

\* self._conn.execute(...): the SELECT, or the INSERT ... ON CONFLICT inside
\* the transaction of "with self._conn:"
ThreadExecute(t) ==
    /\ threads[t].at = "locked"
    /\ LET c == threads[t].call
       IN  /\ cache' = IF c.op = "store" THEN store_payload(cache, c.key, c.payload)
                        ELSE cache
           /\ linear' = Append(linear,
                    [thread |-> t, op |-> c.op, key |-> c.key, payload |-> c.payload,
                     result |-> IF c.op = "get" THEN get_payload(cache, c.key)
                                ELSE None])
    /\ threads' = [threads EXCEPT ![t].at = "executed"]
    /\ UNCHANGED <<lastGet, lastPut, prevPut, nWrites, lock>>
    /\ UNCHANGED <<llmVars, driverVars, poolVars, startVars, hashVars, callVars>>

\* cursor.fetchone() or the commit, then the with block is left and the lock
\* released
ThreadRelease(t) ==
    /\ threads[t].at = "executed"
    /\ lock' = IF lock = t THEN 0 ELSE lock
    /\ threads' = [threads EXCEPT ![t] = [at |-> "idle", call |-> NoCall]]
    /\ UNCHANGED <<cache, lastGet, lastPut, prevPut, nWrites, linear>>
    /\ UNCHANGED <<llmVars, driverVars, poolVars, startVars, hashVars, callVars>>

ThreadNext ==
    \E t \in Threads :
        \/ ThreadCall(t)
        \/ ThreadAcquire(t)
        \/ ThreadExecute(t)
        \/ ThreadRelease(t)

ThreadSpec == ThreadInit /\ [][ThreadNext]_vars

\* the table after these calls, made one after the other on an empty store
RECURSIVE Replay(_)
Replay(calls) ==
    IF calls = <<>> THEN {}
    ELSE LET prior == Replay(SubSeq(calls, 1, Len(calls) - 1))
             last == calls[Len(calls)]
         IN  IF last.op = "store" THEN store_payload(prior, last.key, last.payload)
             ELSE prior

(* C12: the lock of the CacheStore serializes the calls of several threads: *)
(* at most one thread is inside the with block, it is the holder of the     *)
(* lock, and the table and every value a get returned are those of the      *)
(* calls made one after the other in the order their statements ran.        *)
C12_SerializedByLock ==
    /\ Cardinality({t \in Threads : threads[t].at \in {"locked", "executed"}}) <= 1
    /\ \A t \in Threads : threads[t].at \in {"locked", "executed"} <=> lock = t
    /\ cache = Replay(linear)
    /\ \A pk \in PrimaryKeys :
            Cardinality({r \in cache : PrimaryKeyOf(r) = pk}) <= 1
    /\ \A i \in DOMAIN linear :
            linear[i].op = "get" =>
                linear[i].result
                    = get_payload(Replay(SubSeq(linear, 1, i - 1)), linear[i].key)

\* Two threads stored a verdict for the same row one after the other while a
\* call of the other thread was held back at the lock
C12_Witness ==
    /\ \E t, u \in Threads :
        /\ t # u
        /\ threads[t].at = "executed"
        /\ threads[u].at = "waiting"
    /\ \E i, j \in DOMAIN linear :
        /\ i < j
        /\ linear[i].thread # linear[j].thread
        /\ linear[i].op = "store" /\ linear[j].op = "store"
        /\ PrimaryKeyOf(linear[i].key) = PrimaryKeyOf(linear[j].key)
        /\ linear[i].key # linear[j].key

-----------------------------------------------------------------------------
(* LLMClient *)

max_retries == 3

RETRY_INVALID_JSON_MESSAGE == "must be valid JSON"

RETRY_TRUNCATED_MESSAGE == "truncated, be brief"

RETRY_MINIMAL_JSON_MESSAGE == "return minimal JSON"

Range(seq) == {seq[i] : i \in DOMAIN seq}

sorted_Unsorted(items) == items

\* sorted(value.items(), key=priority)
sorted(items) ==
    CHOOSE o \in [1..Len(items) -> Range(items)] :
        /\ Range(o) = Range(items)
        /\ \A i, j \in 1..Len(items) : i < j => o[i] <= o[j]

\* LLMConfig._validate_providers over the priorities in the order the
\* configuration file lists them: None stands for ValueError
validate_providers(priorities) ==
    IF priorities = <<>> THEN None
    ELSE LET ordered_items == sorted(priorities)
         IN  IF ordered_items # [i \in 1..Len(priorities) |-> i] THEN None
             ELSE Some(ordered_items)

\* provider_conf.name or f"provider-{priority}"
display_name(priority) == "provider-" \o ToString(priority)

\* provider_conf.model: one model identifier per provider
model_name(priority) == "model-" \o ToString(priority)

\* What one request can come back with: an exception of create(), or a
\* response.  reasoning / cache_key / keyword say whether the error message
\* contains "reasoning", "prompt_cache_key", and one of the keywords
\* unsupported, unknown, not allowed, invalid, cannot.
LlmPayloads ==
    {[is_valid |-> b, about_status |-> "Done", about_comment |-> <<"o">>] :
        b \in BOOLEAN}

Contents ==
    {[kind |-> "empty", obj |-> NoObject], CorruptJson}
        \cup {json_dumps(pl) : pl \in LlmPayloads}

JSONDecodeError ==
    [cls |-> "JSONDecodeError", reasoning |-> FALSE, cache_key |-> FALSE,
     keyword |-> FALSE, transient |-> FALSE, choices |-> FALSE,
     finish_reason |-> "",
     content |-> [kind |-> "empty", obj |-> NoObject]]

Responses ==
    {JSONDecodeError}
        \cup {[cls |-> c, reasoning |-> r, cache_key |-> k, keyword |-> w,
               transient |-> FALSE, choices |-> FALSE, finish_reason |-> "",
               content |-> [kind |-> "empty", obj |-> NoObject]] :
                 c \in {"APIError", "Exception"}, r \in BOOLEAN, k \in BOOLEAN,
                 w \in BOOLEAN}
        \* a rate limit, a 5xx or a dropped connection: its message names
        \* no request parameter
        \cup {[cls |-> c, reasoning |-> FALSE, cache_key |-> FALSE,
               keyword |-> FALSE, transient |-> TRUE, choices |-> FALSE,
               finish_reason |-> "",
               content |-> [kind |-> "empty", obj |-> NoObject]] :
                 c \in {"APIError", "Exception"}}
        \cup {[cls |-> "response", reasoning |-> FALSE, cache_key |-> FALSE,
               keyword |-> FALSE, transient |-> FALSE, choices |-> ch,
               finish_reason |-> f,
               content |-> ct] :
                 ch \in BOOLEAN, f \in {"", "stop", "length", "content_filter"},
                 ct \in Contents}

is_reasoning_unsupported_error(error) == error.reasoning /\ error.keyword

is_prompt_cache_key_unsupported_error(error) == error.cache_key /\ error.keyword

\* the except branches that disable a feature and continue: lines 246-281
FeatureRejected(resp, re, pce) ==
    \/ /\ resp.cls = "APIError"
       /\ \/ re /\ is_reasoning_unsupported_error(resp)
          \/ pce /\ is_prompt_cache_key_unsupported_error(resp)
    \/ /\ resp.cls = "Exception"
       /\ \/ re /\ resp.reasoning
          \/ pce /\ resp.cache_key

RetryHints_Always(message, att) ==
    <<message, RETRY_MINIMAL_JSON_MESSAGE>>

\* hints = [message]; if attempt + 1 == max_attempts: hints.append(minimal)
RetryHints(message, att) ==
    <<message>> \o
        (IF att + 1 = max_retries THEN <<RETRY_MINIMAL_JSON_MESSAGE>> ELSE <<>>)

\* One iteration of the attempt loop of _generate_with_provider: the request
\* is answered by resp.  kind is "return", "raise" or "continue".
Attempt(resp, att, re, pce, msgs) ==
    LET go == [kind |-> "continue", reasoning_enabled |-> re,
               prompt_cache_enabled |-> pce, current_messages |-> msgs,
               message |-> "", payload |-> NoObject]
        raise(m) == [go EXCEPT !.kind = "raise", !.message = m]
        hint(m) == [go EXCEPT !.current_messages = RetryHints(m, att)]
    IN  CASE resp.cls = "JSONDecodeError" ->
                IF re THEN [go EXCEPT !.reasoning_enabled = FALSE]
                ELSE raise("LLM response could not be parsed as JSON")
          [] resp.cls = "APIError" ->
                IF re /\ is_reasoning_unsupported_error(resp)
                THEN [go EXCEPT !.reasoning_enabled = FALSE]
                ELSE IF pce /\ is_prompt_cache_key_unsupported_error(resp)
                THEN [go EXCEPT !.prompt_cache_enabled = FALSE]
                ELSE raise("LLM request failed")
          [] resp.cls = "Exception" ->
                IF re /\ resp.reasoning
                THEN [go EXCEPT !.reasoning_enabled = FALSE]
                ELSE IF pce /\ resp.cache_key
                THEN [go EXCEPT !.prompt_cache_enabled = FALSE]
                ELSE raise("LLM request failed")
          [] OTHER ->
                IF ~resp.choices
                THEN raise("LLM response does not contain choices")
                ELSE IF resp.finish_reason # "" /\ resp.finish_reason # "stop"
                THEN IF resp.finish_reason = "length" /\ att < max_retries
                     THEN hint(RETRY_TRUNCATED_MESSAGE)
                     ELSE raise("LLM response ended prematurely")
                ELSE IF resp.content.kind = "empty"
                THEN IF att < max_retries
                     THEN hint(RETRY_INVALID_JSON_MESSAGE)
                     ELSE raise("LLM response is empty")
                ELSE IF IsSome(json_loads(resp.content))
                THEN [go EXCEPT !.kind = "return",
                                !.payload = Get(json_loads(resp.content))]
                ELSE IF att < max_retries
                     THEN hint(RETRY_INVALID_JSON_MESSAGE)
                     ELSE raise("Failed to parse LLM JSON response")

ProviderStep_Unbounded(o, att) ==
    IF o.kind = "continue" /\ att <= max_retries
    THEN [o EXCEPT !.kind = "next"]
    ELSE IF o.kind = "continue"
    THEN [o EXCEPT !.kind = "raise",
                   !.message = "Failed to produce valid JSON after attempts"]
    ELSE o

ProviderStep_RetryFailure(o, att) ==
    IF o.kind \in {"continue", "raise"} /\ att < max_retries
    THEN [o EXCEPT !.kind = "next"]
    ELSE IF o.kind = "continue"
    THEN [o EXCEPT !.kind = "raise",
                   !.message = "Failed to produce valid JSON after attempts"]
    ELSE o

\* What _generate_with_provider does after the iteration: "return", "raise"
\* (with its message) or "next" (the loop goes on with attempt + 1)
ProviderStep(o, att) ==
    IF o.kind = "continue"
    THEN IF att < max_retries THEN [o EXCEPT !.kind = "next"]
         ELSE [o EXCEPT !.kind = "raise",
                        !.message = "Failed to produce valid JSON after attempts"]
    ELSE o

generate_loop_NoReturn(kind, pos, n) ==
    IF pos < n THEN [pc |-> "request", pos |-> pos + 1]
    ELSE [pc |-> IF kind = "return" THEN "returned" ELSE "raised", pos |-> pos]

generate_loop_RaiseAtOnce(kind, pos, n) ==
    IF kind = "return" THEN [pc |-> "returned", pos |-> pos]
    ELSE [pc |-> "raised", pos |-> pos]

\* The for loop of generate once _generate_with_provider has returned or
\* raised for the provider at position pos of n: return, go on with the next
\* provider, or raise the aggregated error
generate_loop(kind, pos, n) ==
    IF kind = "return" THEN [pc |-> "returned", pos |-> pos]
    ELSE IF pos < n THEN [pc |-> "request", pos |-> pos + 1]
    ELSE [pc |-> "raised", pos |-> pos]

reasoning_at_entry_Sticky(provider) ==
    reasoning_conf[provider] /\ (llm_pc = "idle" \/ reasoning_enabled)

\* line 208: reasoning_enabled = provider.config.reasoning_enabled, a local
\* of _generate_with_provider
reasoning_at_entry(provider) == reasoning_conf[provider]

\* LLMClient.__init__ over a configuration of up to most providers
LlmInitUpTo(most) ==
    /\ PoolQuiet
    /\ StartQuiet
    /\ HashQuiet
    /\ CallQuiet
    /\ llm_pc = "idle"
    /\ \E n \in 1..most :
        \E yaml \in {q \in [1..n -> 1..n] : Range(q) = 1..n} :
            /\ providers = Get(validate_providers(yaml))
            /\ reasoning_conf \in [1..n -> BOOLEAN]
    /\ key_given = FALSE
    /\ cur_provider = 0
    /\ attempt = 0
    /\ reasoning_enabled = FALSE
    /\ prompt_cache_enabled = FALSE
    /\ current_messages = <<>>
    /\ parsed_content = None
    /\ last_error_messages = <<>>
    /\ last_model_name = None
    /\ llm_result = None
    /\ requested = {}
    /\ served_by = 0
    /\ provider_errors = <<>>
    /\ answered = 0
    /\ transient = FALSE
    /\ cache = {}
    /\ CacheQuiet
    /\ DriverQuiet

LlmInit == LlmInitUpTo(MaxProviders)

\* generate(messages, prompt_cache_key) is called and enters
\* _generate_with_provider for the first provider
LlmCall ==
    /\ llm_pc \in {"idle", "returned", "raised"}
    /\ \E k \in BOOLEAN : key_given' = k /\ prompt_cache_enabled' = k
    /\ llm_pc' = "request"
    /\ cur_provider' = 1
    /\ attempt' = 1
    /\ reasoning_enabled' = reasoning_at_entry(providers[1])
    /\ current_messages' = <<>>
    /\ parsed_content' = None
    /\ last_error_messages' = <<>>
    /\ llm_result' = None
    /\ requested' = {}
    /\ served_by' = 0
    /\ provider_errors' = <<>>
    /\ answered' = 0
    /\ transient' = FALSE
    /\ UNCHANGED <<providers, reasoning_conf, last_model_name>>
    /\ UNCHANGED <<cacheVars, driverVars, poolVars, startVars, hashVars,
                   callers, append_call>>

LlmGenerate == LlmCall /\ UNCHANGED earlier

\* What generate does with the answer resp to a request, up to the next
\* request, the return or the raise
LlmAnswer(resp) ==
    /\  LET me == providers[cur_provider]
            o == ProviderStep(Attempt(resp, attempt, reasoning_enabled,
                                      prompt_cache_enabled, current_messages),
                              attempt)
            to == generate_loop(o.kind, cur_provider, Len(providers))
            before == IF attempt = 1 THEN 0 ELSE answered
        IN  /\ requested' = requested \cup {me}
            /\ answered' = IF FeatureRejected(resp, reasoning_enabled,
                                              prompt_cache_enabled)
                           THEN before ELSE before + 1
            /\ transient' = resp.transient
            /\ parsed_content' = IF o.kind = "return" THEN Some(resp.content) ELSE None
            /\ IF o.kind = "next"
               THEN /\ attempt' = attempt + 1
                    /\ reasoning_enabled' = o.reasoning_enabled
                    /\ prompt_cache_enabled' = o.prompt_cache_enabled
                    /\ current_messages' = o.current_messages
                    /\ UNCHANGED <<llm_pc, cur_provider, last_error_messages,
                                   last_model_name, llm_result, served_by,
                                   provider_errors>>
               ELSE /\ llm_pc' = to.pc
                    /\ cur_provider' = to.pos
                    /\ provider_errors' =
                          IF o.kind = "raise"
                          THEN Append(provider_errors, <<me, o.message>>)
                          ELSE provider_errors
                    /\ last_error_messages' =
                          IF o.kind = "raise"
                          THEN Append(last_error_messages,
                                      <<display_name(me), o.message>>)
                          ELSE last_error_messages
                    /\ last_model_name' =
                          IF o.kind = "return" THEN Some(model_name(me))
                          ELSE last_model_name
                    /\ llm_result' =
                          IF o.kind = "return" THEN Some(o.payload) ELSE llm_result
                    /\ served_by' = IF o.kind = "return" THEN me ELSE served_by
                    /\ IF to.pc = "request"
                       THEN /\ attempt' = 1
                            /\ reasoning_enabled' = reasoning_at_entry(providers[to.pos])
                            /\ prompt_cache_enabled' = key_given
                            /\ current_messages' = <<>>
                       ELSE UNCHANGED <<attempt, reasoning_enabled,
                                        prompt_cache_enabled, current_messages>>
    /\ UNCHANGED <<providers, reasoning_conf, key_given>>
    /\ UNCHANGED <<cacheVars, driverVars, poolVars, startVars, hashVars,
                   callers, append_call>>

\* One request to the current provider, answered by any of the responses
LlmRequest ==
    /\ llm_pc = "request"
    /\ \E resp \in Responses : LlmAnswer(resp)
    /\ UNCHANGED earlier

LlmNext == LlmGenerate \/ LlmRequest

LLMSpec == LlmInit /\ [][LlmNext]_vars

\* create() returns or raises within request_timeout: a request that has been
\* sent is answered
LLMLiveSpec == LlmInitUpTo(2) /\ [][LlmNext]_vars /\ WF_vars(LlmRequest)

-----------------------------------------------------------------------------
(* RepeatSpec: generate calls one after the other on one client, with what *)
(* the call before had switched off when it ended                          *)

\* the provider the call was with when it ended and the features it had
\* switched off for it by then
Disabled ==
    [provider |-> providers[cur_provider],
     reasoning |-> reasoning_conf[providers[cur_provider]] /\ ~reasoning_enabled,
     prompt_cache |-> key_given /\ ~prompt_cache_enabled]

RepeatGenerate ==
    /\ LlmCall
    /\ earlier' = IF llm_pc = "idle" THEN None ELSE Some(Disabled)

RepeatRequest ==
    /\ llm_pc = "request"
    /\ \E resp \in Responses : LlmAnswer(resp)
    /\ UNCHANGED earlier

RepeatNext == RepeatGenerate \/ RepeatRequest

RepeatSpec == LlmInitUpTo(2) /\ [][RepeatNext]_vars

(* C2: generate tries the providers in ascending priority: a provider is   *)
(* sent a request only after every provider of lower priority has failed   *)
(* in this call, and once a provider's answer parses generate returns that *)
(* object with no request to a later provider; the providers below the one *)
(* that served the call each have exactly one recorded failure.            *)
C2_FallbackInPriorityOrder ==
    /\ \A i, j \in DOMAIN providers : i < j => providers[i] < providers[j]
    /\ \A k \in requested : \A j \in Range(providers) :
        j < k => \E i \in DOMAIN last_error_messages :
                    last_error_messages[i][1] = display_name(j)
    /\ llm_pc = "returned" =>
        /\ served_by \in requested
        /\ \A k \in requested : k <= served_by
        /\ parsed_content = Some(json_dumps(Get(llm_result)))
        /\ \A j \in Range(providers) :
            Cardinality({i \in DOMAIN last_error_messages :
                            last_error_messages[i][1] = display_name(j)})
                = IF j < served_by THEN 1 ELSE 0

\* P1 failed, P2 answered: generate returned P2's object with one failure on P1
C2_Witness ==
    /\ llm_pc = "returned"
    /\ providers = <<1, 2>>
    /\ served_by = 2
    /\ Len(last_error_messages) = 1
    /\ last_error_messages[1][1] = display_name(1)
    /\ IsSome(llm_result)

(* C3: generate raises only after every provider of the client has been    *)
(* sent a request and recorded as failed; the aggregated error lists, one  *)
(* entry per provider in order, the display name and the message           *)
(* _generate_with_provider raised for it.                                  *)
C3_RaisesAfterAllProvidersFailed ==
    llm_pc = "raised" =>
        /\ requested = Range(providers)
        /\ llm_result = None
        /\ Len(last_error_messages) = Len(providers)
        /\ Len(provider_errors) = Len(providers)
        /\ \A i \in DOMAIN providers :
            /\ provider_errors[i][1] = providers[i]
            /\ last_error_messages[i] =
                  <<display_name(providers[i]), provider_errors[i][2]>>

\* Both providers failed, the first by running out of attempts and the second
\* on a request error, and generate raised the aggregated error
C3_Witness ==
    /\ llm_pc = "raised"
    /\ Len(providers) = 2
    /\ last_error_messages =
          << <<display_name(1), "Failed to produce valid JSON after attempts">>,
             <<display_name(2), "LLM request failed">> >>

-----------------------------------------------------------------------------
(* main(): values it handles *)

MaxRuns == 2

MaxBatch == 2

\* config.sheets.source_spreadsheet_id and source_sheet_name
SOURCE_ID == "s1"

SOURCE_SHEET == "t1"

\* header_row = 1, data_start_row = 2 and three data rows in the source sheet
SourceRowNumbers == <<2, 3, 4>>

\* The Project name cells the source rows are drawn from, row by row: a name
\* and a second spelling of it, a second name, and a blank cell
IdentifierChoices ==
    << {<<"a">>}, {<<"A", " ">>, <<"b">>}, {<<>>, <<"b">>} >>

\* The comments whose verdict the cache file may hold for a row when the first
\* run starts, <<>> for no record (the source rows all start with comment "o")
SeedChoices == << {<<>>, <<"o">>}, {<<"o">>, <<"n">>}, {<<>>} >>

\* _normalize_identifier: (value or "").strip().casefold()
normalize_identifier(value) ==
    Casefold(Strip(IF IsSome(value) THEN Get(value) ELSE <<>>))

\* dict[key] = value; {} is the empty function
DictSet(d, key, value) ==
    [x \in DOMAIN d \cup {key} |-> IF x = key THEN value ELSE d[x]]

\* value or None, for a cell text
OrNone(text) == IF text = "" THEN None ELSE Some(text)

\* value or "", for an optional text
OrEmpty(opt) == IF IsSome(opt) THEN Get(opt) ELSE ""

\* datetime.now().strftime("%d.%m.%Y %H:%M") of a run: the runs are a week apart
DateText(week) == "week-" \o ToString(week)

\* str.strip() of a Check date cell
StripCell(text) == IF text = " " THEN "" ELSE text

\* _parse_check_date_value: the week the date falls in, None when the text is
\* empty or matches neither format
parse_check_date_value(value) ==
    IF ~IsSome(value) \/ StripCell(Get(value)) = "" THEN None
    ELSE IF \E w \in 0..MaxRuns : StripCell(Get(value)) = DateText(w)
         THEN Some(CHOOSE w \in 0..MaxRuns : StripCell(Get(value)) = DateText(w))
         ELSE None

\* results_to_rows: the header, named by its second column
expected_header_row(identifier_column_present) ==
    IF identifier_column_present THEN "Project name" ELSE "Source URL"

\* GoogleSheetsClient.build_row_url
build_row_url(row_number) == <<"u", "r", "l">>

\* _make_hyperlink and what the sheet shows for the formula: the link text,
\* or the URL when the text is empty
make_hyperlink(url, text) == IF text = <<>> THEN url ELSE text

\* build_result_from_payload (no allowed_statuses configured)
build_result_from_payload(entry, payload) ==
    [row_number |-> entry.row_number, is_valid |-> payload.is_valid,
     raw_response |-> payload]

\* results_to_rows: the row of one entry and its result
ResultRow(entry, result, include_identifier, check_date_value, model_value) ==
    [row_number |-> result.row_number,
     project |-> IF include_identifier
                 THEN make_hyperlink(build_row_url(result.row_number),
                                     IF IsSome(entry.identifier)
                                     THEN Get(entry.identifier) ELSE <<>>)
                 ELSE build_row_url(result.row_number),
     status |-> entry.status_text,
     comment |-> entry.comment_text,
     is_valid |-> result.is_valid,
     raw |-> json_dumps(result.raw_response),
     check_date |-> OrEmpty(check_date_value),
     model |-> OrEmpty(model_value)]

\* results_to_rows over zip(entries, results) without the header
results_to_rows(entries, results, include_identifier, check_dates, model_names) ==
    [i \in 1..Len(results) |->
        ResultRow(entries[i], results[i], include_identifier,
                  IF i <= Len(check_dates) THEN check_dates[i] ELSE None,
                  IF i <= Len(model_names) THEN model_names[i] ELSE None)]

-----------------------------------------------------------------------------
(* GoogleSheetsClient: the destination sheet *)

BlankRow ==
    [row_number |-> 0, project |-> <<>>, status |-> "", comment |-> <<>>,
     is_valid |-> FALSE, raw |-> [kind |-> "empty", obj |-> NoObject],
     check_date |-> "", model |-> ""]

\* fetch_target_values as a list: len(target_values)
SheetLen(sheet) == IF IsSome(sheet.header) THEN 1 + Len(sheet.rows) ELSE 0

\* update_target_header: values.update at A1 with the header row
update_target_header(sheet, header) == [sheet EXCEPT !.header = Some(header)]

\* update_target_rows: values.batchUpdate, one range per 1-based sheet row
update_target_rows_Rewrite(sheet, row_updates) ==
    [sheet EXCEPT !.rows =
        [i \in 1..Len(sheet.rows) |->
            IF i + 1 \in DOMAIN row_updates THEN row_updates[i + 1] ELSE BlankRow]]

update_target_rows(sheet, row_updates) ==
    LET last == IF DOMAIN row_updates = {} THEN 0
                ELSE CHOOSE n \in DOMAIN row_updates :
                        \A k \in DOMAIN row_updates : k <= n
        size == IF last - 1 > Len(sheet.rows) THEN last - 1 ELSE Len(sheet.rows)
    IN  [sheet EXCEPT !.rows =
            [i \in 1..size |->
                IF i + 1 \in DOMAIN row_updates THEN row_updates[i + 1]
                ELSE IF i <= Len(sheet.rows) THEN sheet.rows[i] ELSE BlankRow]]

\* append_results: values.append with INSERT_ROWS, below the last row
append_results(sheet, rows) == [sheet EXCEPT !.rows = sheet.rows \o rows]

\* updates.updatedRange of the append response, as _parse_updated_range reads it
updated_range(sheet, rows) ==
    [start_row |-> SheetLen(sheet) + 1, end_row |-> SheetLen(sheet) + Len(rows)]

\* overwrite_results, first request: values.clear of the whole tab
clear_target(sheet) == EmptySheet

\* overwrite_results: values.clear of the sheet, then values.update at A1
overwrite_results(sheet, header, rows) ==
    [clear_target(sheet) EXCEPT !.header = Some(header), !.rows = rows]

-----------------------------------------------------------------------------
(* main(): lines 132-278, from the clients to the first batch *)

\* header.index("Row Number") and header.index("Check date") both succeed
HasLookupColumns(header) == header \in {"Project name", "Source URL"}

\* the sheet rows (1-based) whose Project name normalizes to key
RowsNamed(rows, key) ==
    {i + 1 : i \in {j \in DOMAIN rows : normalize_identifier(Some(rows[j].project)) = key}}

Min(S) == CHOOSE n \in S : \A k \in S : n <= k

Max(S) == CHOOSE n \in S : \A k \in S : k <= n

\* existing_rows_by_project: setdefault keeps the first row of a name
IndexByProject(rows) ==
    LET keys == {normalize_identifier(Some(rows[j].project)) : j \in DOMAIN rows}
                    \ {<<>>}
    IN  [key \in keys |-> Min(RowsNamed(rows, key))]

\* existing_*_by_identifier: a later row of the same name replaces an earlier one
LastByIdentifier(rows, field) ==
    LET keys == {normalize_identifier(Some(rows[j].project)) : j \in DOMAIN rows}
                    \ {<<>>}
    IN  [key \in keys |-> OrNone(rows[Max(RowsNamed(rows, key)) - 1][field])]

\* existing_*_by_row_number: keyed by the Row Number cell, the last row wins
LastByRowNumber(rows, field) ==
    LET keys == {rows[j].row_number : j \in DOMAIN rows}
    IN  [key \in keys |->
            OrNone(rows[Max({j \in DOMAIN rows : rows[j].row_number = key})][field])]

Setup(a, sheet, entries, week) ==
    LET expected == expected_header_row(identifier_column)
        fetched == IF ~a.dry_run \/ a.checkdate THEN sheet ELSE EmptySheet
        target_values == IF ~a.dry_run
                         THEN [fetched EXCEPT !.header = Some(expected)]
                         ELSE fetched
        use_identifier_updates == ~a.dry_run /\ identifier_column
        lookup == IsSome(target_values.header)
                    /\ HasLookupColumns(Get(target_values.header))
        by_name == lookup /\ Get(target_values.header) = "Project name"
        rows == target_values.rows
    IN  [entries |-> entries,
         start |-> 1,
         index |-> 1,
         results |-> <<>>,
         processed_entries |-> <<>>,
         processed_check_dates |-> <<>>,
         processed_model_names |-> <<>>,
         failed_entries |-> <<>>,
         skipped_missing_identifier |-> <<>>,
         write_entries |-> <<>>,
         write_results |-> <<>>,
         write_check_dates |-> <<>>,
         write_model_names |-> <<>>,
         last_written_total_count |-> 0,
         last_written_write_count |-> 0,
         check_date |-> DateText(week),
         use_identifier_updates |-> use_identifier_updates,
         existing_rows_by_project |->
            IF use_identifier_updates THEN IndexByProject(rows) ELSE <<>>,
         existing_check_date_by_row_number |->
            IF lookup THEN LastByRowNumber(rows, "check_date") ELSE <<>>,
         existing_check_date_by_identifier |->
            IF by_name THEN LastByIdentifier(rows, "check_date") ELSE <<>>,
         existing_model_by_row_number |->
            IF lookup THEN LastByRowNumber(rows, "model") ELSE <<>>,
         existing_model_by_identifier |->
            IF by_name THEN LastByIdentifier(rows, "model") ELSE <<>>,
         next_available_row |-> IF a.dry_run THEN 2 ELSE SheetLen(target_values) + 1,
         existing_row_check_dates |->
            IF a.dry_run THEN <<>> ELSE [i \in DOMAIN rows |-> rows[i].check_date],
         existing_row_model_values |->
            IF a.dry_run THEN <<>> ELSE [i \in DOMAIN rows |-> rows[i].model],
         checkdate_force_remaining |-> IF a.checkdate THEN 1 ELSE 0,
         current_week_start |-> week]

-----------------------------------------------------------------------------
(* main(): lines 283-397, one entry of a batch *)

\* dict.get on a dictionary whose values are optional texts
GetText(d, key) == IF key \in DOMAIN d THEN d[key] ELSE None

\* Python values, by their type: what validate_entry hands to generate
PyDict == [py |-> "dict", items |-> <<>>]

PyStr == [py |-> "str", items |-> <<>>]

PyList(items) == [py |-> "list", items |-> items]

PyTuple(items) == [py |-> "tuple", items |-> items]

\* build_validation_messages returns messages, cache_key
build_validation_messages(entry) ==
    PyTuple(<<PyList(<<PyDict, PyDict, PyDict, PyDict>>), PyStr>>)

\* list and dict have a copy method, str has none
HasCopy(value) == value.py \in {"list", "dict"}

\* What the providers would do with a well-formed request: generate returns
\* an object or raises the aggregated RuntimeError
Answers ==
    {[kind |-> "return", exc |-> "",
      payload |-> [is_valid |-> FALSE, about_status |-> "Done",
                   about_comment |-> <<"o">>]],
     [kind |-> "raise", exc |-> "RuntimeError", payload |-> NoObject]}

\* LLMClient.generate as main sees it: current_messages = [msg.copy() for msg
\* in messages] runs before the first request and its AttributeError is not
\* caught by generate
generate(messages, answer) ==
    IF \E i \in DOMAIN messages.items : ~HasCopy(messages.items[i])
    THEN [kind |-> "raise", exc |-> "AttributeError", payload |-> NoObject]
    ELSE answer

\* pipeline.validate_entry from the point where generate has returned the
\* payload or raised: line 188, or the exception goes on to the caller
validate_entry_after(entry, payload) ==
    IF payload.kind = "return"
    THEN [kind |-> "return", exc |-> "",
          result |-> build_result_from_payload(entry, payload.payload)]
    ELSE [kind |-> "raise", exc |-> payload.exc,
          result |-> build_result_from_payload(entry, NoObject)]

\* pipeline.validate_entry: messages is the pair build_validation_messages
\* returned
validate_entry(entry, answer) ==
    validate_entry_after(entry, generate(build_validation_messages(entry), answer))

\* LLMClient.model_name after a call served by the first provider
llm_model_name == model_name(1)

\* lines 296-334: whether --checkdate forces this entry, and the budget left
\* force_reason of lines 310-323; "" stands for None
force_reason(a, L, entry, normalized_identifier) ==
    LET by_name == IF normalized_identifier # <<>>
                   THEN GetText(L.existing_check_date_by_identifier,
                                normalized_identifier)
                   ELSE None
        existing_check_date_value ==
            IF IsSome(by_name) THEN by_name
            ELSE GetText(L.existing_check_date_by_row_number, entry.row_number)
        parsed_check_date == parse_check_date_value(existing_check_date_value)
    IN  IF ~a.checkdate THEN ""
        ELSE IF StripCell(OrEmpty(existing_check_date_value)) = ""
        THEN "missing Check date"
        ELSE IF ~IsSome(parsed_check_date) THEN "unrecognized Check date"
        ELSE IF Get(parsed_check_date) < L.current_week_start
        THEN "stale Check date"
        ELSE ""

CheckdateForce_NoBudget(a, L, entry, normalized_identifier) ==
    LET reason == force_reason(a, L, entry, normalized_identifier)
    IN  [force |-> reason # "", remaining |-> L.checkdate_force_remaining,
         reason |-> reason]

\* lines 325-334: force_without_limit is set for a missing check date only
CheckdateForce(a, L, entry, normalized_identifier) ==
    LET reason == force_reason(a, L, entry, normalized_identifier)
        force_without_limit == reason = "missing Check date"
        keep == [force |-> FALSE, remaining |-> L.checkdate_force_remaining,
                 reason |-> reason]
    IN  IF reason = "" THEN keep
        ELSE IF force_without_limit THEN [keep EXCEPT !.force = TRUE]
        ELSE IF L.checkdate_force_remaining > 0
        THEN [keep EXCEPT !.force = TRUE,
                          !.remaining = L.checkdate_force_remaining - 1]
        ELSE keep

\* The cache key of an entry: lines 336-345
EntryKey(entry) ==
    [source_id |-> SOURCE_ID, sheet_name |-> SOURCE_SHEET,
     row_number |-> entry.row_number, status_text |-> entry.status_text,
     comment_hash |-> compute_comment_hash(Some(entry.comment_text))]

lookup_IgnoreForce(a, should_force_current, tbl, key) == get_payload(tbl, key)

lookup_Never(a, should_force_current, tbl, key) == None

\* lines 337-345: the lookup is skipped for a forced entry
lookup(a, should_force_current, tbl, key) ==
    IF ~a.force /\ ~should_force_current THEN get_payload(tbl, key) ELSE None

-----------------------------------------------------------------------------
(* main(): lines 399-628, the flush at the end of a batch *)

\* the list with list[index] = value, extended with "" up to index (1-based)
SetAt(list, index, value) ==
    [i \in 1..(IF index > Len(list) THEN index ELSE Len(list)) |->
        IF i = index THEN value ELSE IF i <= Len(list) THEN list[i] ELSE ""]

\* the list[from:] slice, from counted from 0
Slice_Whole(list, from) == list

\* list[from:]
Slice(list, from) == SubSeq(list, from + 1, Len(list))

\* lines 446-483 and 506-552: the bookkeeping for each row written at
\* sheet_row under key, in the order written
RECURSIVE Bookkeep(_, _)
Bookkeep(L, placed) ==
    IF placed = <<>> THEN L
    ELSE LET p == Head(placed)
             check_value == p.row.check_date
             model_value == p.row.model
             named == p.key # <<>>
         IN  Bookkeep(
                [L EXCEPT
                    !.existing_rows_by_project =
                        IF named THEN DictSet(@, p.key, p.sheet_row) ELSE @,
                    !.existing_row_check_dates =
                        SetAt(@, p.sheet_row - 1, check_value),
                    !.existing_row_model_values =
                        SetAt(@, p.sheet_row - 1, model_value),
                    !.existing_check_date_by_row_number =
                        DictSet(@, p.row.row_number, OrNone(check_value)),
                    !.existing_model_by_row_number =
                        DictSet(@, p.row.row_number, OrNone(model_value)),
                    !.existing_check_date_by_identifier =
                        IF named THEN DictSet(@, p.key, OrNone(check_value)) ELSE @,
                    !.existing_model_by_identifier =
                        IF named THEN DictSet(@, p.key, OrNone(model_value)) ELSE @],
                Tail(placed))

\* line 559: next_available_row = max(next_available_row, end_row + 1)
next_row(predicted, end_row) ==
    IF predicted > end_row + 1 THEN predicted ELSE end_row + 1

\* lines 499-559: the bookkeeping after append_results(rows_to_append), whose
\* response gave row_range (None when _parse_updated_range found none)
AppendBookkeeping(L, rows_to_append, row_range) ==
    LET start_row == IF row_range = None THEN L.next_available_row
                     ELSE Get(row_range).start_row
        end_row == IF row_range = None THEN start_row + Len(rows_to_append) - 1
                   ELSE Get(row_range).end_row
        L2 == Bookkeep(L, [n \in DOMAIN rows_to_append |->
                            [sheet_row |-> start_row + n - 1,
                             key |-> rows_to_append[n].key,
                             row |-> rows_to_append[n].row]])
    IN  [L2 EXCEPT !.next_available_row = next_row(@, end_row)]

\* the elements of S in ascending order
RECURSIVE Ascending(_)
Ascending(S) == IF S = {} THEN <<>> ELSE <<Min(S)>> \o Ascending(S \ {Min(S)})

\* lines 400-560: upsert by identifier.  An entry whose name is in
\* existing_rows_by_project overwrites that sheet row, the others are
\* appended below the last row.
FlushUpsert(L, sheet) ==
    LET from == L.last_written_write_count
        new_entries == Slice(L.write_entries, from)
        output_rows ==
            results_to_rows(new_entries, Slice(L.write_results, from),
                            identifier_column,
                            [i \in DOMAIN new_entries |->
                                Some(Slice(L.write_check_dates, from)[i])],
                            Slice(L.write_model_names, from))
        key(i) == normalize_identifier(new_entries[i].identifier)
        known(i) == key(i) # <<>> /\ key(i) \in DOMAIN L.existing_rows_by_project
        target_row(i) == L.existing_rows_by_project[key(i)]
        updated == {i \in DOMAIN new_entries : known(i)}
        targets == {target_row(i) : i \in updated}
        winner(t) == Max({i \in updated : target_row(i) = t})
        row_updates == [t \in targets |-> output_rows[winner(t)]]
        rows_to_append == Ascending(DOMAIN new_entries \ updated)
        sheet1 == IF targets # {} THEN update_target_rows(sheet, row_updates)
                  ELSE sheet
        L1 == Bookkeep(L, [n \in 1..Cardinality(targets) |->
                            LET t == Ascending(targets)[n]
                            IN  [sheet_row |-> t, key |-> key(winner(t)),
                                 row |-> row_updates[t]]])
        append_payload == [n \in DOMAIN rows_to_append |->
                            output_rows[rows_to_append[n]]]
        row_range == updated_range(sheet1, append_payload)
        sheet2 == IF rows_to_append # <<>>
                  THEN append_results(sheet1, append_payload) ELSE sheet1
        L3 == IF rows_to_append # <<>>
              THEN AppendBookkeeping(L1,
                        [n \in DOMAIN rows_to_append |->
                            [key |-> key(rows_to_append[n]),
                             row |-> append_payload[n]]],
                        Some(row_range))
              ELSE L1
    IN  [locals |-> [L3 EXCEPT !.last_written_write_count = Len(L.write_results)],
         sheet |-> sheet2,
         sent |-> new_entries,
         calls |-> (IF targets # {} THEN <<sheet1>> ELSE <<>>)
                    \o (IF rows_to_append # <<>> THEN <<sheet2>> ELSE <<>>)]

\* lines 571-594: a reused verdict takes the Check date or Model found at its
\* position in the sheet as it was read
Backfill(values, existing, from) ==
    [i \in DOMAIN values |->
        IF IsSome(values[i]) THEN values[i]
        ELSE IF from + i <= Len(existing) THEN Some(existing[from + i])
        ELSE None]

\* lines 613-627: existing[seq_index] = value or "", appended when beyond the end
RECURSIVE Remember(_, _, _)
Remember(existing, values, from) ==
    IF values = <<>> THEN existing
    ELSE Remember(
            IF from + 1 <= Len(existing)
            THEN [existing EXCEPT ![from + 1] = OrEmpty(Head(values))]
            ELSE Append(existing, OrEmpty(Head(values))),
            Tail(values), from + 1)

include_header_Never(last_written_total_count) == FALSE

\* line 567: include_header = last_written_total_count == 0
include_header(last_written_total_count) == last_written_total_count = 0

\* lines 561-628: without identifiers the first flush of a run rewrites the
\* sheet and the later ones append to it
FlushSequential(L, sheet) ==
    LET from == L.last_written_total_count
        overwrite == include_header(from)
        check_dates_for_rows ==
            Backfill(Slice(L.processed_check_dates, from),
                     L.existing_row_check_dates, from)
        model_names_for_rows ==
            Backfill(Slice(L.processed_model_names, from),
                     L.existing_row_model_values, from)
        output_rows ==
            results_to_rows(Slice(L.processed_entries, from),
                            Slice(L.results, from), identifier_column,
                            check_dates_for_rows, model_names_for_rows)
    IN  [locals |->
            [L EXCEPT
                !.existing_row_check_dates =
                    Remember(@, check_dates_for_rows, from),
                !.existing_row_model_values =
                    Remember(@, model_names_for_rows, from),
                !.last_written_total_count = Len(L.results)],
         sheet |->
            IF overwrite
            THEN overwrite_results(sheet, expected_header_row(identifier_column),
                                   output_rows)
            ELSE append_results(sheet, output_rows),
         sent |-> Slice(L.processed_entries, from),
         calls |->
            IF overwrite
            THEN <<clear_target(sheet),
                   overwrite_results(sheet, expected_header_row(identifier_column),
                                     output_rows)>>
            ELSE <<append_results(sheet, output_rows)>>]

flush_enabled_Always(a) == TRUE

\* line 399: if not args.dry_run
flush_enabled(a) == ~a.dry_run

\* lines 399-628.  calls lists the sheet as each request of the flush leaves
\* it, in the order the requests are sent.
Flush(a, L, sheet) ==
    IF ~flush_enabled(a) THEN [locals |-> L, sheet |-> sheet, sent |-> <<>>, calls |-> <<>>]
    ELSE IF L.use_identifier_updates
            /\ Len(L.write_results) > L.last_written_write_count
    THEN FlushUpsert(L, sheet)
    ELSE IF ~L.use_identifier_updates
            /\ Len(L.results) > L.last_written_total_count
    THEN FlushSequential(L, sheet)
    ELSE [locals |-> L, sheet |-> sheet, sent |-> <<>>, calls |-> <<>>]

\* lines 640-664: what the end of the run writes
Finish(a, L, sheet) ==
    IF a.dry_run \/ Len(L.results) # 0 THEN sheet
    ELSE IF L.use_identifier_updates
    THEN update_target_header(sheet, expected_header_row(identifier_column))
    ELSE overwrite_results(sheet, expected_header_row(identifier_column), <<>>)

\* lines 639-650: print(json.dumps(output_rows, ...)) of a dry run
dry_run_output(a, L) ==
    IF a.dry_run
    THEN Some(results_to_rows(L.processed_entries, L.results, identifier_column,
                              L.processed_check_dates, L.processed_model_names))
    ELSE None

\* the sheet as each request of lines 652-658 leaves it
FinishCalls(a, L, sheet) ==
    IF a.dry_run \/ Len(L.results) # 0 THEN <<>>
    ELSE IF L.use_identifier_updates THEN <<Finish(a, L, sheet)>>
    ELSE <<clear_target(sheet), Finish(a, L, sheet)>>

-----------------------------------------------------------------------------
(* Spec: runs of main() over a source sheet, a cache file and a destination *)
(* sheet that persist between the runs                                      *)

CommandLines == [dry_run : BOOLEAN, force : BOOLEAN, checkdate : BOOLEAN]

SeedPayload == [is_valid |-> TRUE, about_status |-> "Done", about_comment |-> <<"o">>]

\* a destination row written by an earlier run
OldRow(row_number, project, check_date, model) ==
    [row_number |-> row_number, project |-> project, status |-> "Done",
     comment |-> <<"o">>, is_valid |-> TRUE, raw |-> json_dumps(SeedPayload),
     check_date |-> check_date, model |-> model]

\* The destination sheets a first run may find: an empty tab, or the header
\* with the rows of earlier runs
TargetSeeds ==
    IF identifier_column
    THEN {EmptySheet,
          [header |-> Some("Project name"),
           rows |-> <<OldRow(2, <<"a">>, DateText(0), "model-0")>>],
          [header |-> Some("Project name"),
           rows |-> <<OldRow(3, <<"b">>, "", ""),
                      OldRow(2, <<"a">>, DateText(0), "model-0")>>]}
    ELSE {EmptySheet,
          [header |-> Some("Source URL"),
           rows |-> <<OldRow(2, build_row_url(2), DateText(0), "model-0")>>],
          [header |-> Some("Source URL"),
           rows |-> <<OldRow(2, build_row_url(2), DateText(0), "model-0"),
                      OldRow(3, build_row_url(3), "", ""),
                      OldRow(4, build_row_url(4), DateText(1), "model-1")>>],
          \* a check date cell that a user overwrote with free text
          [header |-> Some("Source URL"),
           rows |-> <<OldRow(2, build_row_url(2), DateText(0), "model-0"),
                      OldRow(3, build_row_url(3), "soon", "model-0"),
                      OldRow(4, build_row_url(4), "", "")>>]}

\* payload_texts: what the column payload_json of a record of the cache file
\* may hold
InitWith(cached_comments, payload_texts) ==
    /\ LlmQuiet
    /\ PoolQuiet
    /\ CacheQuiet
    /\ identifier_column \in BOOLEAN
    /\ batch_size \in 1..MaxBatch
    /\ \E ids \in [DOMAIN SourceRowNumbers -> UNION Range(IdentifierChoices)] :
        /\ \A i \in DOMAIN ids :
            ids[i] \in IF identifier_column THEN IdentifierChoices[i] ELSE {<<>>}
        /\ source = [i \in DOMAIN SourceRowNumbers |->
                        [row_number |-> SourceRowNumbers[i],
                         status_text |-> "Done",
                         comment_text |-> <<"o">>,
                         identifier |-> IF identifier_column THEN Some(ids[i])
                                        ELSE None]]
    /\ \E seeds \in [DOMAIN SourceRowNumbers -> UNION Range(cached_comments)],
          texts \in [DOMAIN SourceRowNumbers -> payload_texts] :
        /\ \A i \in DOMAIN seeds : seeds[i] \in cached_comments[i]
        /\ cache = {[NewRow([source_id |-> SOURCE_ID, sheet_name |-> SOURCE_SHEET,
                             row_number |-> SourceRowNumbers[i],
                             status_text |-> "Done",
                             comment_hash |-> compute_comment_hash(Some(seeds[i]))],
                            SeedPayload)
                        EXCEPT !.payload_json = texts[i]] :
                        i \in {j \in DOMAIN seeds : seeds[j] # <<>>}}
    /\ target \in TargetSeeds
    /\ pc = "idle"
    /\ run_no = 0
    /\ args = NoArgs
    /\ locals = <<>>
    /\ trace = <<>>
    /\ prev_run = None
    /\ edited = {}
    /\ exit_code = None
    /\ cache_store = "none"
    /\ unit = None
    /\ flushes = <<>>
    /\ requests = 0
    /\ stdout = None
    /\ resumed = FALSE

\* a cache file whose records were all written by store_payload
InitFrom(cached_comments) == InitWith(cached_comments, {json_dumps(SeedPayload)})

Init == StartQuiet /\ HashQuiet /\ CallQuiet /\ InitFrom(SeedChoices)

\* line 183: if not args.dry_run, around update_target_header
header_update(a) == ~a.dry_run

\* main() starts: lines 109-278.  The runs are a week apart.
StartRun ==
    /\ pc = "idle"
    /\ run_no < MaxRuns
    /\ \E a \in CommandLines :
        LET expected == expected_header_row(identifier_column)
        IN  /\ args' = a
            /\ target' = IF header_update(a) /\ target.header # Some(expected)
                         THEN update_target_header(target, expected)
                         ELSE target
            /\ locals' = Setup(a, target, source, run_no + 1)
            /\ requests' = IF header_update(a) /\ target.header # Some(expected)
                            THEN 1 ELSE 0
    /\ run_no' = run_no + 1
    /\ trace' = <<>>
    /\ pc' = "rows"
    /\ cache_store' = "open"
    /\ flushes' = <<>>
    /\ stdout' = None
    /\ UNCHANGED <<identifier_column, batch_size, source, prev_run, edited,
                   exit_code, unit, resumed>>
    /\ UNCHANGED <<cacheVars, llmVars, poolVars, startVars, hashVars, callVars>>

entry_check_date_Always(cached, check_date) == Some(check_date)

\* line 384: entry_check_date = None if cached_payload is not None else check_date
entry_check_date(cached, check_date) == IF cached THEN None ELSE Some(check_date)

skip_row_Never(has_identifier_column, normalized_identifier) == FALSE

\* lines 285-294: if has_identifier_column and not normalized_identifier
skip_row(has_identifier_column, normalized_identifier) ==
    has_identifier_column /\ normalized_identifier = <<>>

on_failure_Lost(L, entry) == L

on_failure_Abort(L, entry) ==
    [L EXCEPT !.failed_entries = Append(@, entry),
              !.start = Len(L.entries), !.index = Len(L.entries)]

\* lines 359-362: except Exception: failed_entries.append(entry); continue
on_failure(L, entry) == [L EXCEPT !.failed_entries = Append(@, entry)]

\* the last entry of the batch that starts at start
BatchEnd(L) ==
    IF L.start + batch_size - 1 < Len(L.entries) THEN L.start + batch_size - 1
    ELSE Len(L.entries)

\* One iteration of "for entry in batch": lines 283-397.  The call of line
\* 358 is validate_entry as written, or validate_entry from the point where
\* generate has answered.
RowStep(as_written) ==
    /\ pc = "rows"
    /\ \E answer \in Answers :
        LET L == locals
            entry == L.entries[L.index]
            normalized_identifier == normalize_identifier(entry.identifier)
            skipped == skip_row(identifier_column, normalized_identifier)
            decision == CheckdateForce(args, L, entry, normalized_identifier)
            should_force_current == decision.force
            key == EntryKey(entry)
            cached_payload == lookup(args, should_force_current, cache, key)
            cached == IsSome(cached_payload)
            validated == IF as_written THEN validate_entry(entry, answer)
                         ELSE validate_entry_after(entry, answer)
            failed == ~cached /\ validated.kind = "raise"
            result == IF cached
                      THEN build_result_from_payload(entry, Get(cached_payload))
                      ELSE validated.result
            by_name == IF normalized_identifier # <<>>
                       THEN GetText(L.existing_model_by_identifier,
                                    normalized_identifier)
                       ELSE None
            entry_model_value ==
                IF ~cached THEN Some(llm_model_name)
                ELSE IF IsSome(by_name) THEN by_name
                ELSE GetText(L.existing_model_by_row_number, entry.row_number)
            check == entry_check_date(cached, L.check_date)
            written == IsSome(check) /\ L.use_identifier_updates /\ ~args.dry_run
            L1 == [L EXCEPT !.checkdate_force_remaining = decision.remaining]
            L2 == IF skipped
                  THEN [L EXCEPT !.skipped_missing_identifier = Append(@, entry)]
                  ELSE IF failed THEN on_failure(L1, entry)
                  ELSE [L1 EXCEPT
                            !.processed_entries = Append(@, entry),
                            !.processed_check_dates = Append(@, check),
                            !.processed_model_names = Append(@, entry_model_value),
                            !.results = Append(@, result),
                            !.write_entries =
                                IF written THEN Append(@, entry) ELSE @,
                            !.write_results =
                                IF written THEN Append(@, result) ELSE @,
                            !.write_check_dates =
                                IF written THEN Append(@, Get(check)) ELSE @,
                            !.write_model_names =
                                IF written THEN Append(@, entry_model_value) ELSE @]
        IN  /\ locals' = [L2 EXCEPT !.index = @ + 1]
            /\ pc' = IF L2.index + 1 > BatchEnd(L2) THEN "flush" ELSE "rows"
            /\ cache' = IF skipped \/ cached \/ failed THEN cache
                        ELSE store_payload(cache, key, result.raw_response)
            /\ trace' = Append(trace,
                    [index |-> L.index,
                     row_number |-> entry.row_number,
                     key |-> key,
                     outcome |-> IF skipped THEN "skipped"
                                 ELSE IF cached THEN "cached"
                                 ELSE IF failed THEN "failed" ELSE "fresh",
                     forced |-> ~skipped /\ (args.force \/ should_force_current),
                     reason |-> IF skipped THEN "" ELSE decision.reason,
                     policy |-> ~skipped /\ should_force_current,
                     spent |-> ~skipped /\ decision.remaining
                                            # L.checkdate_force_remaining,
                     looked |-> ~skipped /\ ~args.force /\ ~should_force_current,
                     called |-> ~skipped /\ ~cached,
                     unparseable |->
                        /\ ~skipped /\ ~args.force /\ ~should_force_current
                        /\ \E r \in cache :
                            SelectWhere(r, key) /\ json_loads(r.payload_json) = None,
                     exc |-> IF ~skipped /\ failed THEN validated.exc ELSE "",
                     stored |-> ~skipped /\ ~cached /\ ~failed,
                     result |-> IF skipped \/ failed THEN None ELSE Some(result)])
    /\ UNCHANGED <<identifier_column, batch_size, source, target, run_no, args,
                   prev_run, edited, exit_code, cache_store, unit, flushes,
                   resumed, requests, stdout>>
    /\ UNCHANGED <<lastGet, lastPut, prevPut, nWrites, threadVars>>
    /\ UNCHANGED <<llmVars, poolVars, startVars, hashVars, callVars>>

ProcessRow == RowStep(TRUE)

\* The end of a batch: lines 399-628, then the next batch or the end of the loop
FlushBatch ==
    /\ pc = "flush"
    /\ LET flushed == Flush(args, locals, target)
           start == locals.start + batch_size
       IN  /\ target' = flushed.sheet
           /\ locals' = [flushed.locals EXCEPT !.start = start]
           /\ pc' = IF start > Len(locals.entries) THEN "finish" ELSE "rows"
           /\ requests' = requests + Len(flushed.calls)
           /\ flushes' = IF flushed.sent = <<>> THEN flushes
                         ELSE Append(flushes, flushed.sent)
    /\ UNCHANGED <<identifier_column, batch_size, source, run_no, args, trace,
                   prev_run, edited, exit_code, cache_store, unit, resumed, stdout>>
    /\ UNCHANGED <<cacheVars, llmVars, poolVars, startVars, hashVars, callVars>>

\* After the last batch: lines 630-673, return 0 through the finally clause
FinishRun ==
    /\ pc = "finish"
    /\ target' = Finish(args, locals, target)
    /\ requests' = requests + Len(FinishCalls(args, locals, target))
    /\ stdout' = dry_run_output(args, locals)
    /\ pc' = "done"
    /\ exit_code' = Some(0)
    /\ cache_store' = "closed"
    /\ UNCHANGED <<identifier_column, batch_size, source, run_no, args, locals,
                   trace, prev_run, edited, unit, flushes, resumed>>
    /\ UNCHANGED <<cacheVars, llmVars, poolVars, startVars, hashVars, callVars>>

\* sys.exit in run(), lines 676-681: the process is gone.  prev_run keeps
\* the destination a complete run without --dry-run, --force and --checkdate
\* left behind.
Exit ==
    /\ pc \in {"done", "crashed"}
    /\ pc' = "idle"
    /\ prev_run' = IF pc = "crashed" THEN None
                   ELSE IF args.dry_run THEN prev_run
                   ELSE IF args.force \/ args.checkdate THEN None
                   ELSE Some(target)
    /\ resumed' = (pc = "crashed")
    /\ edited' = {}
    /\ args' = NoArgs
    /\ locals' = <<>>
    /\ trace' = <<>>
    /\ exit_code' = None
    /\ cache_store' = "none"
    /\ unit' = None
    /\ flushes' = <<>>
    /\ requests' = 0
    /\ stdout' = None
    /\ UNCHANGED <<identifier_column, batch_size, source, target, run_no>>
    /\ UNCHANGED <<cacheVars, llmVars, poolVars, startVars, hashVars, callVars>>

\* the requests to the destination that are due at this point of the run
PendingCalls ==
    IF pc = "flush" THEN Flush(args, locals, target).calls
    ELSE IF pc = "finish" THEN FinishCalls(args, locals, target)
    ELSE <<>>

\* the flush of a batch that an exception leaves behind: the sheet before its
\* first request and the sheet after its last
CutShort(calls) ==
    IF pc = "flush" /\ calls # <<>>
    THEN Some([before |-> target, after |-> calls[Len(calls)]])
    ELSE None

\* KeyboardInterrupt inside the try block of main (lines 279-671): "except
\* Exception" does not catch it, the finally clause closes the cache store and
\* run() exits with 130.  It may arrive between any two requests of a flush.
Interrupt ==
    /\ pc \in {"rows", "flush", "finish"}
    /\ LET calls == PendingCalls
       IN  /\ \E k \in 0..Len(calls) :
                /\ target' = IF k = 0 THEN target ELSE calls[k]
                /\ requests' = requests + k
           /\ unit' = CutShort(calls)
           /\ flushes' = <<>>
    /\ pc' = "crashed"
    /\ exit_code' = Some(130)
    /\ cache_store' = "closed"
    /\ locals' = <<>>
    /\ trace' = <<>>
    /\ UNCHANGED <<identifier_column, batch_size, source, run_no, args,
                   prev_run, edited, resumed, stdout>>
    /\ UNCHANGED <<cacheVars, llmVars, poolVars, startVars, hashVars, callVars>>

\* A request to the destination raises out of _execute_with_retry (an
\* HttpError outside the retryable codes, or the last retry failed): nothing
\* in main catches it, the requests sent before it have taken effect, the
\* finally clause closes the cache store and the interpreter exits with 1.
WriteError ==
    /\ pc \in {"flush", "finish"}
    /\ LET calls == PendingCalls
       IN  /\ \E k \in 1..Len(calls) :
                /\ target' = IF k = 1 THEN target ELSE calls[k - 1]
                /\ requests' = requests + k
           /\ unit' = CutShort(calls)
           /\ flushes' = <<>>
    /\ pc' = "crashed"
    /\ exit_code' = Some(1)
    /\ cache_store' = "closed"
    /\ locals' = <<>>
    /\ trace' = <<>>
    /\ UNCHANGED <<identifier_column, batch_size, source, run_no, args,
                   prev_run, edited, resumed, stdout>>
    /\ UNCHANGED <<cacheVars, llmVars, poolVars, startVars, hashVars, callVars>>

\* main() is cut short before the try block, lines 110-278: by an interrupt,
\* or by an error of fetch_target_values or update_target_header.  The cache
\* store is opened at line 133, outside the try block.
AbortSetup ==
    /\ pc = "idle"
    /\ run_no < MaxRuns
    /\ \E a \in CommandLines, exc \in {"KeyboardInterrupt", "HttpError"},
          opened \in BOOLEAN, header_sent \in BOOLEAN,
          header_written \in BOOLEAN :
        LET expected == expected_header_row(identifier_column)
            fetches == ~a.dry_run \/ a.checkdate
            writes == header_update(a) /\ target.header # Some(expected)
        IN  /\ exc = "HttpError" => opened /\ fetches
            /\ header_sent => opened /\ writes
            /\ header_written => header_sent /\ exc = "KeyboardInterrupt"
            /\ requests' = IF header_sent THEN 1 ELSE 0
            /\ args' = a
            /\ target' = IF header_written
                         THEN update_target_header(target, expected)
                         ELSE target
            /\ cache_store' = IF opened THEN "open" ELSE "none"
            /\ exit_code' = Some(IF exc = "KeyboardInterrupt" THEN 130 ELSE 1)
    /\ run_no' = run_no + 1
    /\ pc' = "crashed"
    /\ UNCHANGED <<identifier_column, batch_size, source, locals, trace,
                   prev_run, edited, unit, flushes, resumed, stdout>>
    /\ UNCHANGED <<cacheVars, llmVars, poolVars, startVars, hashVars, callVars>>

\* the source rows (by position) whose comment gets rewritten between runs
EditedRows == {2}

\* Between two runs somebody rewrites the comment of one source row
EditSource ==
    /\ pc = "idle"
    /\ 0 < run_no /\ run_no < MaxRuns
    /\ edited = {}
    /\ \E i \in EditedRows, c \in Comments :
        /\ c # source[i].comment_text
        /\ source' = [source EXCEPT ![i].comment_text = c]
        /\ edited' = {[index |-> i, comment_text |-> source[i].comment_text]}
    /\ prev_run' = None
    /\ UNCHANGED <<identifier_column, batch_size, target, pc, run_no, args,
                   locals, trace, exit_code, cache_store, unit, flushes,
                   resumed, requests, stdout>>
    /\ UNCHANGED <<cacheVars, llmVars, poolVars, startVars, hashVars, callVars>>

Next ==
    \/ StartRun
    \/ ProcessRow
    \/ FlushBatch
    \/ FinishRun
    \/ Interrupt
    \/ WriteError
    \/ AbortSetup
    \/ Exit
    \/ EditSource

Spec == Init /\ [][Next]_vars

-----------------------------------------------------------------------------
(* main() from the row loop to the last flush, over a validate_entry that  *)
(* returns a verdict or raises: the reconciliation of lines 399-628 at     *)
(* work on fresh verdicts.                                                 *)

\* line 358 with the call of generate replaced by its outcome
ValidateRow == RowStep(FALSE)

ReconcileNext ==
    \/ StartRun
    \/ ValidateRow
    \/ FlushBatch
    \/ FinishRun
    \/ Exit

\* a new cache file: what the later runs reuse, the earlier runs stored
ReconcileInit ==
    StartQuiet /\ HashQuiet /\ CallQuiet /\ InitFrom(<< {<<>>}, {<<>>}, {<<>>} >>)

ReconcileSpec == ReconcileInit /\ [][ReconcileNext]_vars

-----------------------------------------------------------------------------
(* HashSpec: compute_comment_hash applied to two comments *)

MaxComment == 2

CommentChars == {" ", "\t", "o", "n"}

\* Optional[str]: None, or a text of at most MaxComment characters
CommentArguments ==
    {None} \cup {Some(text) : text \in UNION {[1..n -> CommentChars] : n \in 0..MaxComment}}

HashInit ==
    /\ CacheQuiet
    /\ cache = {}
    /\ LlmQuiet
    /\ DriverQuiet
    /\ PoolQuiet
    /\ StartQuiet
    /\ CallQuiet
    /\ comments \in CommentArguments \X CommentArguments
    /\ hashes = <<>>

HashCompute ==
    /\ hashes = <<>>
    /\ hashes' = <<compute_comment_hash(comments[1]), compute_comment_hash(comments[2])>>
    /\ UNCHANGED comments
    /\ UNCHANGED <<cacheVars, llmVars, driverVars, poolVars, startVars, callVars>>

HashNext == HashCompute

HashSpec == HashInit /\ [][HashNext]_vars

-----------------------------------------------------------------------------
(* ClientSpec: threads that share one LLMClient; each calls generate and   *)
(* then reads the property model_name, as main does at line 382            *)

MaxCalls == 2

ClientInit ==
    /\ CacheQuiet
    /\ cache = {}
    /\ DriverQuiet
    /\ PoolQuiet
    /\ StartQuiet
    /\ HashQuiet
    /\ LlmQuiet
    /\ callers = [t \in Threads |->
                    [at |-> "idle", calls |-> 0, served |-> 0, recorded |-> None]]
    /\ append_call = None
    /\ earlier = None

\* what no step of a caller touches
ClientUntouched ==
    /\ UNCHANGED <<llm_pc, reasoning_conf, key_given, cur_provider, attempt,
                   reasoning_enabled, prompt_cache_enabled, current_messages,
                   parsed_content, last_error_messages, llm_result, requested,
                   served_by, provider_errors, answered, transient>>
    /\ UNCHANGED <<cacheVars, driverVars, poolVars, startVars, hashVars, append_call, earlier>>

\* LLMClient.__init__ with the providers of the configuration; until then
\* no thread has a client to call
ClientBuild ==
    /\ providers = <<>>
    /\ \E n \in 1..MaxProviders : providers' = [i \in 1..n |-> i]
    /\ UNCHANGED <<last_model_name, callers>>
    /\ ClientUntouched

\* the thread calls generate
ClientCall(t) ==
    /\ providers # <<>>
    /\ callers[t].at \in {"idle", "done", "raised"}
    /\ callers[t].calls < MaxCalls
    /\ callers' = [callers EXCEPT ![t] = [at |-> "generate", calls |-> @.calls + 1,
                                          served |-> 0, recorded |-> None]]
    /\ UNCHANGED <<providers, last_model_name>>
    /\ ClientUntouched

\* lines 135-136: a provider's answer parsed; generate records the provider's
\* model and returns
ClientReturn(t) ==
    /\ callers[t].at = "generate"
    /\ \E i \in DOMAIN providers :
        /\ last_model_name' = Some(model_name(providers[i]))
        /\ callers' = [callers EXCEPT ![t].at = "read", ![t].served = providers[i]]
    /\ UNCHANGED providers
    /\ ClientUntouched

\* lines 138-141: every provider failed; generate raises
ClientRaise(t) ==
    /\ callers[t].at = "generate"
    /\ callers' = [callers EXCEPT ![t].at = "raised"]
    /\ UNCHANGED <<providers, last_model_name>>
    /\ ClientUntouched

\* lines 100-106: the property model_name
client_model_name ==
    IF IsSome(last_model_name) THEN Get(last_model_name)
    ELSE model_name(providers[1])

\* the caller reads llm_client.model_name for the row it validated
ClientRead(t) ==
    /\ callers[t].at = "read"
    /\ callers' = [callers EXCEPT ![t].at = "done",
                                  ![t].recorded = Some(client_model_name)]
    /\ UNCHANGED <<providers, last_model_name>>
    /\ ClientUntouched

ClientNext ==
    \/ ClientBuild
    \/ \E t \in Threads : ClientCall(t)
    \/ \E t \in Threads : ClientReturn(t)
    \/ \E t \in Threads : ClientRaise(t)
    \/ \E t \in Threads : ClientRead(t)

ClientSpec == ClientInit /\ [][ClientNext]_vars

-----------------------------------------------------------------------------
(* AppendSpec: one append of result rows (main, lines 486-559) against a    *)
(* destination that other writers change: the response names the range the *)
(* rows landed in, or none                                                  *)

Digits == <<"0", "1", "2", "3", "4", "5", "6", "7", "8", "9">>

IsDigit(ch) == ch \in Range(Digits)

DigitValue(ch) == CHOOSE d \in 0..9 : Digits[d + 1] = ch

\* int("".join(digits))
RECURSIVE ToInt(_)
ToInt(digits) ==
    IF digits = <<>> THEN 0
    ELSE 10 * ToInt(SubSeq(digits, 1, Len(digits) - 1))
            + DigitValue(digits[Len(digits)])

\* str.partition(sep)
partition(text, sep) ==
    LET at == {i \in DOMAIN text : text[i] = sep}
    IN  IF at = {} THEN [head |-> text, sep |-> FALSE, tail |-> <<>>]
        ELSE [head |-> SubSeq(text, 1, Min(at) - 1), sep |-> TRUE,
              tail |-> SubSeq(text, Min(at) + 1, Len(text))]

\* _extract_row_number: the digits of a cell reference, None without any
extract_row_number(cell_reference) ==
    LET digits == SelectSeq(cell_reference, IsDigit)
    IN  IF digits = <<>> THEN None ELSE Some(ToInt(digits))

\* _parse_updated_range
parse_updated_range(range_str) ==
    IF range_str = <<>> THEN None
    ELSE LET after == partition(range_str, "!").tail
             range_body == IF after = <<>> THEN range_str ELSE after
             refs == partition(range_body, ":")
             start_row == extract_row_number(refs.head)
             end_row == extract_row_number(IF refs.sep THEN refs.tail ELSE refs.head)
         IN  IF start_row = None \/ end_row = None THEN None
             ELSE Some([start_row |-> Get(start_row), end_row |-> Get(end_row)])

\* updates.updatedRange of a response, with the rows it names: absent,
\* without row numbers, a single cell, and ranges of one or two rows
ReportedRanges ==
    {[text |-> <<>>, rows |-> None],
     [text |-> <<"R", "!", "A", ":", "H">>, rows |-> None],
     [text |-> <<"A", "4">>, rows |-> Some(<<4, 4>>)],
     [text |-> <<"R", "!", "A", "2", ":", "H", "2">>, rows |-> Some(<<2, 2>>)],
     [text |-> <<"R", "!", "A", "3", ":", "H", "3">>, rows |-> Some(<<3, 3>>)],
     [text |-> <<"R", "!", "A", "1", "0", ":", "H", "1", "0">>,
      rows |-> Some(<<10, 10>>)],
     [text |-> <<"R", "2", "!", "A", "3", ":", "H", "4">>, rows |-> Some(<<3, 4>>)],
     [text |-> <<"R", "!", "A", "5", ":", "H", "6">>, rows |-> Some(<<5, 6>>)]}

NewResultRows ==
    <<[key |-> <<"c">>, row |-> OldRow(4, <<"c">>, DateText(1), "model-1")],
      [key |-> <<"d">>, row |-> OldRow(5, <<"d">>, DateText(1), "model-2")],
      [key |-> <<"e">>, row |-> OldRow(6, <<"e">>, DateText(1), "model-1")]>>

\* rows_to_append of one flush: new identifiers, in the order of the batch
AppendBatches ==
    {SubSeq(NewResultRows, i, j) : i \in 1..Len(NewResultRows), j \in 1..Len(NewResultRows)}
        \ {<<>>}

\* main has read the destination and set up its bookkeeping (lines 165-278)
AppendInit ==
    /\ CacheQuiet
    /\ cache = {}
    /\ LlmQuiet
    /\ PoolQuiet
    /\ StartQuiet
    /\ HashQuiet
    /\ CallQuiet
    /\ identifier_column = TRUE
    /\ target \in TargetSeeds
    /\ locals = Setup(NoArgs, target, <<>>, 1)
    /\ batch_size = 0
    /\ source = <<>>
    /\ pc = "off"
    /\ run_no = 0
    /\ args = NoArgs
    /\ trace = <<>>
    /\ prev_run = None
    /\ edited = {}
    /\ exit_code = None
    /\ cache_store = "none"
    /\ unit = None
    /\ flushes = <<>>
    /\ requests = 0
    /\ stdout = None
    /\ resumed = FALSE

AppendUntouched ==
    /\ UNCHANGED <<identifier_column, batch_size, source, target, pc, run_no, args,
                   trace, prev_run, edited, exit_code, cache_store, unit, flushes,
                   requests, stdout, resumed, callers, earlier>>
    /\ UNCHANGED <<cacheVars, llmVars, poolVars, startVars, hashVars>>

\* line 488: sheets_client.append_results(append_payload); the response
\* names where the service put the rows
AppendSend ==
    /\ append_call = None
    /\ \E rows \in AppendBatches, reported \in ReportedRanges :
        /\ Len(rows) <= MaxBatch
        /\ reported.rows # None =>
                Get(reported.rows)[2] - Get(reported.rows)[1] + 1 = Len(rows)
        /\ append_call' = Some([at |-> "sent", rows |-> rows, reported |-> reported,
                                before |-> locals])
    /\ UNCHANGED locals
    /\ AppendUntouched

\* lines 489-559
AppendReconcile ==
    /\ append_call # None
    /\ Get(append_call).at = "sent"
    /\ locals' = AppendBookkeeping(locals, Get(append_call).rows,
                                   parse_updated_range(Get(append_call).reported.text))
    /\ append_call' = Some([Get(append_call) EXCEPT !.at = "reconciled"])
    /\ AppendUntouched

AppendNext == AppendSend \/ AppendReconcile

AppendSpec == AppendInit /\ [][AppendNext]_vars

-----------------------------------------------------------------------------
(* CorruptSpec: runs of main() over a cache file in which the payload of a *)
(* record may be a text json.loads rejects                                 *)

CorruptInit ==
    /\ StartQuiet
    /\ HashQuiet
    /\ CallQuiet
    /\ InitWith(<< {<<"o">>}, {<<>>, <<"o">>}, {<<>>} >>,
                {json_dumps(SeedPayload), CorruptJson})

CorruptNext ==
    \/ StartRun
    \/ ProcessRow
    \/ FlushBatch
    \/ FinishRun
    \/ Exit

CorruptSpec == CorruptInit /\ [][CorruptNext]_vars

-----------------------------------------------------------------------------
(* PoolSpec: one call of validate_batch_parallel (parallel.py), task by    *)
(* task: the executor runs at most max_workers tasks at a time and         *)
(* as_completed hands the finished ones over in the order they finish      *)

MaxWorkers == 3

PoolRows == {2, 4, 5}

PoolEntry(r) ==
    [row_number |-> r, status_text |-> "Done", comment_text |-> <<"o">>,
     identifier |-> None]

\* the batches: the rows in any order, none twice
PoolBatches ==
    {b \in UNION {[1..n -> PoolRows] : n \in 0..Cardinality(PoolRows)} :
        \A i, j \in DOMAIN b : i # j => b[i] # b[j]}

\* What the providers would do at each attempt of a task; the third is the
\* aggregated error whose text quotes a provider's HTTP 429
PoolAnswers ==
    Answers \cup {[kind |-> "raise", exc |-> "RuntimeError: 429", payload |-> NoObject]}

\* lines 48-54: the text of the exception names a rate limit
is_rate_limit(exc) == exc = "RuntimeError: 429"

\* max_retries: int = 3 of validate_entry_with_retry
with_retry_max_retries == 3

\* lines 43-71: the loop of validate_entry_with_retry from one attempt on
RECURSIVE with_retry_from(_, _, _)
with_retry_from(entry, answers, tries) ==
    LET validated == validate_entry(entry, answers[tries + 1])
    IN  IF validated.kind = "return"
        THEN [entry |-> entry, result |-> Some(validated.result), error |-> None]
        ELSE IF is_rate_limit(validated.exc) /\ tries < with_retry_max_retries - 1
             THEN with_retry_from(entry, answers, tries + 1)
             ELSE [entry |-> entry, result |-> None, error |-> Some(validated.exc)]

\* validate_entry_with_retry: (entry, result, error)
validate_entry_with_retry(entry, answers) == with_retry_from(entry, answers, 0)

\* list.sort(key=lambda x: x[0].row_number): stable, ascending
RECURSIVE sort_by_row_number(_)
sort_by_row_number(list) ==
    IF list = <<>> THEN <<>>
    ELSE LET n == Len(list)
             head == sort_by_row_number(SubSeq(list, 1, n - 1))
             last == list[n]
             k == Cardinality({i \in DOMAIN head :
                                 head[i].entry.row_number <= last.entry.row_number})
         IN  SubSeq(head, 1, k) \o <<last>> \o SubSeq(head, k + 1, Len(head))

PoolInit ==
    /\ StartQuiet
    /\ HashQuiet
    /\ CallQuiet
    /\ CacheQuiet
    /\ cache = {}
    /\ LlmQuiet
    /\ DriverQuiet
    /\ pool_pc = "called"
    /\ pool_entries \in {[i \in DOMAIN b |-> PoolEntry(b[i])] : b \in PoolBatches}
    /\ max_workers \in 1..MaxWorkers
    /\ future_to_entry = <<>>
    /\ successful_results = <<>>
    /\ failed_entries = <<>>

\* lines 99-124: return ([], []) for no entries, else submit every task
PoolSubmit ==
    /\ pool_pc = "called"
    /\ IF pool_entries = <<>>
       THEN /\ pool_pc' = "returned"
            /\ UNCHANGED future_to_entry
       ELSE /\ pool_pc' = "collecting"
            /\ future_to_entry' =
                [i \in DOMAIN pool_entries |->
                    [entry |-> pool_entries[i], at |-> "queued", outcome |-> None]]
    /\ UNCHANGED <<pool_entries, max_workers, successful_results, failed_entries>>
    /\ UNCHANGED <<cacheVars, llmVars, driverVars, startVars, hashVars, callVars>>

Running == {i \in DOMAIN future_to_entry : future_to_entry[i].at = "running"}

\* a free worker takes the oldest work item of the executor's queue
PoolRun(i) ==
    /\ pool_pc = "collecting"
    /\ future_to_entry[i].at = "queued"
    /\ \A j \in 1..(i - 1) : future_to_entry[j].at # "queued"
    /\ Cardinality(Running) < max_workers
    /\ future_to_entry' = [future_to_entry EXCEPT ![i].at = "running"]
    /\ UNCHANGED <<pool_pc, pool_entries, max_workers, successful_results,
                   failed_entries>>
    /\ UNCHANGED <<cacheVars, llmVars, driverVars, startVars, hashVars, callVars>>

\* validate_entry_with_retry returns in the worker: the future is done
PoolFinish(i) ==
    /\ pool_pc = "collecting"
    /\ future_to_entry[i].at = "running"
    /\ \E answers \in [1..with_retry_max_retries -> PoolAnswers] :
        future_to_entry' =
            [future_to_entry EXCEPT
                ![i] = [entry |-> @.entry, at |-> "done",
                        outcome |-> Some(validate_entry_with_retry(@.entry, answers))]]
    /\ UNCHANGED <<pool_pc, pool_entries, max_workers, successful_results,
                   failed_entries>>
    /\ UNCHANGED <<cacheVars, llmVars, driverVars, startVars, hashVars, callVars>>

failed_append_Last(failed, entry) == <<entry>>

\* lines 142 and 157: failed_entries.append(entry)
failed_append(failed, entry) == Append(failed, entry)

\* lines 128-151: as_completed yields a finished future; its entry goes to
\* one of the two lists
PoolYield(i) ==
    /\ pool_pc = "collecting"
    /\ future_to_entry[i].at = "done"
    /\ LET returned == Get(future_to_entry[i].outcome)
       IN  IF IsSome(returned.result)
           THEN /\ successful_results' =
                    Append(successful_results,
                           [entry |-> returned.entry, result |-> Get(returned.result)])
                /\ UNCHANGED failed_entries
           ELSE /\ failed_entries' = failed_append(failed_entries, returned.entry)
                /\ UNCHANGED successful_results
    /\ future_to_entry' = [future_to_entry EXCEPT ![i].at = "yielded"]
    /\ UNCHANGED <<pool_pc, pool_entries, max_workers>>
    /\ UNCHANGED <<cacheVars, llmVars, driverVars, startVars, hashVars, callVars>>

\* lines 171-174: every future was yielded; sort and return
PoolReturn ==
    /\ pool_pc = "collecting"
    /\ \A i \in DOMAIN future_to_entry : future_to_entry[i].at = "yielded"
    /\ successful_results' = sort_by_row_number(successful_results)
    /\ pool_pc' = "returned"
    /\ UNCHANGED <<pool_entries, max_workers, future_to_entry, failed_entries>>
    /\ UNCHANGED <<cacheVars, llmVars, driverVars, startVars, hashVars, callVars>>

PoolNext ==
    \/ PoolSubmit
    \/ \E i \in DOMAIN future_to_entry : PoolRun(i)
    \/ \E i \in DOMAIN future_to_entry : PoolFinish(i)
    \/ \E i \in DOMAIN future_to_entry : PoolYield(i)
    \/ PoolReturn

PoolSpec == PoolInit /\ [][PoolNext]_vars

-----------------------------------------------------------------------------
(* StartupSpec: main() from load_config to the row loop (lines 109-133),   *)
(* over the configurations a user may write, then one run                  *)

\* providers: of the configuration file, as the priorities in the order the
\* file lists them (a mapping: no priority twice); has_key: per listed
\* provider, whether an API key and a model identifier are configured or in
\* the environment; columns_found: the source header has the status and
\* comment columns; no_entries: the source has no data row
Configurations ==
    {c \in [priorities : UNION {[1..n -> 1..(MaxProviders + 1)] : n \in 0..MaxProviders},
            has_key : UNION {[1..n -> BOOLEAN] : n \in 0..MaxProviders},
            columns_found : BOOLEAN,
            no_entries : BOOLEAN] :
        /\ Len(c.has_key) = Len(c.priorities)
        /\ \A i, j \in DOMAIN c.priorities :
            i # j => c.priorities[i] # c.priorities[j]}

\* LLMClient._build_provider, lines 150-168: None without an API key or a
\* model identifier
build_provider(conf, priority) ==
    LET i == CHOOSE k \in DOMAIN conf.priorities : conf.priorities[k] = priority
    IN  IF conf.has_key[i] THEN Some(priority) ELSE None

\* LLMClient.__init__, lines 88-91: the providers that could be built, in
\* the order of provider_sequence
built_providers(conf) ==
    LET provider_sequence == Get(validate_providers(conf.priorities))
    IN  SelectSeq(provider_sequence, LAMBDA priority : IsSome(build_provider(conf, priority)))

\* one cache file, holding the verdict of one row, and batches of one
StartupInit ==
    /\ HashQuiet
    /\ CallQuiet
    /\ InitFrom(<< {<<>>}, {<<"o">>}, {<<>>} >>)
    /\ batch_size = 1
    /\ start_pc = "load_config"
    /\ config \in Configurations

\* what main() has not touched before the row loop
StartupUntouched ==
    /\ UNCHANGED <<identifier_column, batch_size, source, target, pc, run_no,
                   args, locals, trace, prev_run, edited, cache_store, unit,
                   flushes, requests, stdout, resumed>>
    /\ UNCHANGED <<llm_pc, reasoning_conf, key_given, cur_provider, attempt,
                   reasoning_enabled, prompt_cache_enabled, current_messages,
                   parsed_content, last_error_messages, last_model_name,
                   llm_result, requested, served_by, provider_errors, answered,
                   transient>>
    /\ UNCHANGED <<cacheVars, poolVars, config, hashVars, callVars>>

\* line 119: load_config raises the ValueError of _validate_providers
LoadConfig ==
    /\ start_pc = "load_config"
    /\ IF validate_providers(config.priorities) = None
       THEN start_pc' = "fatal" /\ exit_code' = Some(1)
       ELSE start_pc' = "build_entries" /\ UNCHANGED exit_code
    /\ UNCHANGED providers
    /\ StartupUntouched

\* lines 123-130: build_entries raises the ValueError of _column_index for a
\* required column; without entries main returns 0
BuildEntries ==
    /\ start_pc = "build_entries"
    /\ IF ~config.columns_found
       THEN start_pc' = "fatal" /\ exit_code' = Some(1)
       ELSE IF config.no_entries
       THEN start_pc' = "returned" /\ exit_code' = Some(0)
       ELSE start_pc' = "llm_client" /\ UNCHANGED exit_code
    /\ UNCHANGED providers
    /\ StartupUntouched

\* line 132: LLMClient(config.llm) raises RuntimeError when no provider
\* could be built
BuildClient ==
    /\ start_pc = "llm_client"
    /\ LET built == built_providers(config)
       IN  IF built = <<>>
           THEN start_pc' = "fatal" /\ exit_code' = Some(1) /\ UNCHANGED providers
           ELSE start_pc' = "ready" /\ providers' = built /\ UNCHANGED exit_code
    /\ StartupUntouched

\* line 133 onwards
StartupRun == start_pc = "ready" /\ StartRun

StartupNext ==
    \/ LoadConfig
    \/ BuildEntries
    \/ BuildClient
    \/ StartupRun
    \/ ProcessRow
    \/ FlushBatch
    \/ FinishRun

StartupSpec == StartupInit /\ [][StartupNext]_vars

-----------------------------------------------------------------------------
(* Claims about main() *)

\* the cache holds a parseable verdict under exactly this key
Held(key) ==
    \E r \in cache :
        /\ r.source_id = key.source_id
        /\ r.sheet_name = key.sheet_name
        /\ r.row_number = key.row_number
        /\ r.status_text = key.status_text
        /\ r.comment_hash = key.comment_hash
        /\ r.payload_json.kind = "json"

\* the key of a trace record is the current key of its source row
CurrentKey(t) ==
    LET entry == locals.entries[t.index]
    IN  /\ t.key.source_id = SOURCE_ID
        /\ t.key.sheet_name = SOURCE_SHEET
        /\ t.key.row_number = entry.row_number
        /\ t.key.status_text = entry.status_text
        /\ t.key.comment_hash = Sha256(Strip(entry.comment_text))

(* C1: for a row that is not forced, a cache hit under the row's current   *)
(* key rebuilds the verdict from the stored payload without calling        *)
(* generate; a miss calls generate for the row and, on success, stores the *)
(* raw payload under the row's current key.                                *)
C1_HitReusesMissValidates ==
    \A n \in DOMAIN trace :
        LET t == trace[n]
        IN  (t.outcome # "skipped" /\ ~t.forced) =>
                /\ CurrentKey(t)
                /\ t.outcome = "cached" =>
                    /\ ~t.called
                    /\ ~t.stored
                    /\ \E r \in cache :
                        /\ NewRow(t.key, r.payload_json.obj) = r
                        /\ Get(t.result).raw_response = r.payload_json.obj
                        /\ Get(t.result).row_number = t.row_number
                /\ t.outcome = "failed" => ~Held(t.key) /\ t.called /\ ~t.stored
                /\ t.outcome = "fresh" =>
                    /\ t.called
                    /\ t.stored
                    /\ NewRow(t.key, Get(t.result).raw_response) \in cache

\* One run met a cached row and a row the cache did not hold, neither forced
C1_Witness ==
    /\ \E n \in DOMAIN trace :
        /\ trace[n].outcome = "cached" /\ ~trace[n].forced /\ ~trace[n].called
    /\ \E n \in DOMAIN trace :
        /\ trace[n].outcome = "failed" /\ ~trace[n].forced /\ trace[n].called

\* the entries of the trace records with this outcome, in order
RECURSIVE EntriesWith(_, _)
EntriesWith(tr, outcome) ==
    IF tr = <<>> THEN <<>>
    ELSE (IF Head(tr).outcome = outcome
          THEN <<locals.entries[Head(tr).index]>> ELSE <<>>)
            \o EntriesWith(Tail(tr), outcome)

(* C4: a row whose validation raises is recorded as failed and the driver  *)
(* goes on with the next row: the rows are reached one after the other     *)
(* whatever happened to the earlier ones, a batch is flushed only when all *)
(* its rows were reached, and the run ends only when every row was.        *)
C4_FailureDoesNotAbort ==
    pc \in {"rows", "flush", "finish", "done"} =>
        /\ \A n \in DOMAIN trace : trace[n].index = n
        /\ locals.index = Len(trace) + 1
        /\ locals.failed_entries = EntriesWith(trace, "failed")
        /\ pc = "flush" => Len(trace) = BatchEnd(locals)
        /\ pc \in {"finish", "done"} => Len(trace) = Len(locals.entries)
        /\ Len(locals.failed_entries) + Len(locals.skipped_missing_identifier)
              + Len(locals.results) = Len(trace)

\* A completed run in which validation raised for a row and a later row,
\* in a later batch, was still processed
C4_Witness ==
    /\ pc = "done"
    /\ batch_size = 1
    /\ \E n, m \in DOMAIN trace :
        /\ n < m
        /\ trace[n].outcome = "failed"
        /\ trace[n].exc = "AttributeError"
        /\ trace[m].outcome = "cached"

\* the destination rows (indices into target.rows) named like this entry
RowsOf(entry) ==
    {j \in DOMAIN target.rows :
        /\ normalize_identifier(entry.identifier) # <<>>
        /\ normalize_identifier(Some(target.rows[j].project))
              = normalize_identifier(entry.identifier)}

(* C5: in upsert-by-identifier mode, re-validating an identifier that is   *)
(* present at destination row R updates row R in place, and the            *)
(* destination never holds two rows for one normalized identifier.         *)
C5_UpsertStability ==
    identifier_column =>
        /\ \A j, k \in DOMAIN target.rows :
            (/\ j # k
             /\ normalize_identifier(Some(target.rows[j].project))
                   = normalize_identifier(Some(target.rows[k].project)))
                => normalize_identifier(Some(target.rows[j].project)) = <<>>
        /\ (pc = "done" /\ ~args.dry_run) =>
            \A n \in DOMAIN trace :
                LET entry == locals.entries[trace[n].index]
                IN  (trace[n].called /\ RowsOf(entry) # {}) =>
                        \E j \in RowsOf(entry) :
                            /\ target.rows[j].row_number = entry.row_number
                            /\ target.rows[j].comment = entry.comment_text
                            /\ target.rows[j].check_date = locals.check_date

(* C8 as stated: when only the comment of a row changed between two runs,  *)
(* to a text with a different trimmed content, the lookup of the next run  *)
(* misses for that row and generate is called for it.                      *)
C8_EditedCommentAlwaysMisses ==
    \A e \in edited : \A n \in DOMAIN trace :
        LET t == trace[n]
        IN  (/\ t.index = e.index
             /\ t.outcome # "skipped"
             /\ Strip(locals.entries[t.index].comment_text) # Strip(e.comment_text))
                => t.outcome # "cached" /\ t.called

\* the key the row had before its comment was edited
OldKey(t, e) ==
    [t.key EXCEPT !.comment_hash = compute_comment_hash(Some(e.comment_text))]

(* C8, amended: when the cache holds the row's verdict under the old       *)
(* comment and only the comment changed between two runs, to a text with a *)
(* different trimmed content, the next run's lookup for the row misses and *)
(* generate is called for it; whenever the next run reuses a verdict for   *)
(* the row, that verdict is stored under the new comment's fingerprint.    *)
C8_ContentSensitivity ==
    \A e \in edited : \A n \in DOMAIN trace :
        LET t == trace[n]
        IN  (/\ t.index = e.index
             /\ t.outcome # "skipped"
             /\ Strip(locals.entries[t.index].comment_text) # Strip(e.comment_text))
                => /\ Held(OldKey(t, e)) => t.outcome # "cached" /\ t.called
                   /\ t.outcome = "cached" =>
                        /\ Held(t.key)
                        /\ ~Held(OldKey(t, e))
                        /\ t.key.comment_hash # OldKey(t, e).comment_hash

\* The previous comment's verdict is in the cache, the comment was rewritten,
\* and the run did not reuse it: it called generate for the row
C8_Witness ==
    \E e \in edited : \E n \in DOMAIN trace :
        /\ trace[n].index = e.index
        /\ ~trace[n].forced
        /\ Strip(locals.entries[e.index].comment_text) # Strip(e.comment_text)
        /\ Held(OldKey(trace[n], e))
        /\ trace[n].outcome = "failed"
        /\ trace[n].called

(* C9: a run without --force and --checkdate that follows such a run, with *)
(* no source row edited in between, leaves the destination sheet exactly   *)
(* as the earlier run left it, with and without the identifier column.     *)
C9_Idempotence ==
    (/\ pc = "done"
     /\ args = NoArgs
     /\ IsSome(prev_run)) => target = Get(prev_run)

\* The second of two such runs is complete and the sheet holds verdict rows
C9_Witness ==
    /\ pc = "done"
    /\ args = NoArgs
    /\ IsSome(prev_run)
    /\ ~identifier_column
    /\ target.rows # <<>>
    /\ \E n \in DOMAIN trace : trace[n].outcome = "cached"
    /\ target = Get(prev_run)

(* C10: after a completed run without --dry-run, every source row the run  *)
(* processed successfully, freshly validated or reused from the cache, has *)
(* its verdict row in the destination.                                     *)
C10_ProcessedRowsAreWritten ==
    (pc = "done" /\ ~args.dry_run) =>
        \A n \in DOMAIN trace :
            trace[n].outcome \in {"cached", "fresh"} =>
                \E j \in DOMAIN target.rows :
                    /\ target.rows[j].row_number = trace[n].row_number
                    /\ target.rows[j].raw
                          = json_dumps(Get(trace[n].result).raw_response)

(* C11: when a run was interrupted or crashed, a complete run that follows *)
(* it over the unchanged source leaves in the destination a verdict row    *)
(* for every row it validated, fresh or reused from the cache.             *)
C11_Resumability ==
    (pc = "done" /\ resumed /\ edited = {} /\ ~args.dry_run) =>
        \A n \in DOMAIN trace :
            trace[n].outcome \in {"cached", "fresh"} =>
                \E j \in DOMAIN target.rows :
                    /\ target.rows[j].row_number = trace[n].row_number
                    /\ target.rows[j].comment
                          = locals.entries[trace[n].index].comment_text
                    /\ target.rows[j].raw
                          = json_dumps(Get(trace[n].result).raw_response)

(* C13: an interrupt never leaves a batch half-flushed: when it arrives    *)
(* during the flush of a batch, the destination is left either as it was   *)
(* before the flush or as the complete flush leaves it.                    *)
C13_InterruptLeavesNoHalfFlush ==
    (pc = "crashed" /\ exit_code = Some(130) /\ IsSome(unit)) =>
        target \in {Get(unit).before, Get(unit).after}

(* C14: a destination-write error that surfaces from the sheets client     *)
(* aborts the run and leaves the failing batch either fully flushed or     *)
(* with none of its writes done.                                           *)
C14_WriteErrorLeavesNoPartialBatch ==
    (pc = "crashed" /\ exit_code = Some(1) /\ IsSome(unit)) =>
        /\ locals = <<>>
        /\ target \in {Get(unit).before, Get(unit).after}

(* C15: the process exits with 0 when the run completes, whatever failed   *)
(* or was skipped among its rows, and with 130 or 1 when it is cut short;  *)
(* whenever it has an exit status the cache store it opened is closed.     *)
C15_ExitCodes ==
    /\ pc = "done" => exit_code = Some(0)
    /\ pc = "crashed" => exit_code \in {Some(130), Some(1)}
    /\ IsSome(exit_code) => pc \in {"done", "crashed"} /\ cache_store # "open"

\* _generate_with_provider has just raised: generate is about to send the
\* first request to the next provider, or has raised itself
GivenUp ==
    /\ provider_errors # <<>>
    /\ \/ llm_pc = "raised"
       \/ llm_pc = "request" /\ attempt = 1 /\ cur_provider > 1

\* the errors _generate_with_provider raises for having run out of attempts
OutOfAttempts ==
    {"Failed to produce valid JSON after attempts", "LLM response is empty",
     "Failed to parse LLM JSON response"}

(* C16: the rejection of an optional feature does not consume an attempt:  *)
(* a provider is given up for lack of attempts only after max_retries      *)
(* requests that were answered by something else than such a rejection.    *)
C16_RejectionKeepsTheAttempt ==
    (GivenUp /\ provider_errors[Len(provider_errors)][2] \in OutOfAttempts) =>
        answered = max_retries

(* C17: a transient provider or network failure is retried: a provider is  *)
(* given up on such a failure only when max_retries requests have been     *)
(* made to it.                                                             *)
C17_TransientFailureIsRetried ==
    (GivenUp /\ transient) => answered = max_retries

(* C18: a forced row, forced by --force or by the check-date policy, is    *)
(* never served from the cache: no stored payload is used for it,          *)
(* validate_entry is called, and when it returns the record of the row is  *)
(* the fresh payload.                                                      *)
C18_ForcedRowBypassesCache ==
    \A n \in DOMAIN trace :
        trace[n].forced =>
            /\ trace[n].outcome \in {"failed", "fresh"}
            /\ trace[n].called
            /\ trace[n].outcome = "fresh" =>
                    /\ trace[n].stored
                    /\ get_payload(cache, trace[n].key)
                            = Some(Get(trace[n].result).raw_response)

\* a row forced by the check-date policy alone, in a run without --force,
\* while the cache holds a payload under its key
C18_Witness ==
    \E n \in DOMAIN trace :
        /\ trace[n].forced
        /\ trace[n].policy
        /\ ~args.force
        /\ trace[n].called
        /\ IsSome(get_payload(cache, trace[n].key))

(* C19: with --checkdate at most one row per run is forced for a check     *)
(* date that is present, parseable and earlier than the start of the       *)
(* current week; the budget counter never goes below zero; a stale row     *)
(* that is not forced goes through the cache lookup like any other row.    *)
C19_ForcedRevalidationBudget ==
    /\ pc \in {"rows", "flush", "finish"} =>
            locals.checkdate_force_remaining >= 0
    /\ Cardinality({n \in DOMAIN trace :
                        /\ trace[n].reason = "stale Check date"
                        /\ trace[n].policy}) <= 1
    /\ \A n \in DOMAIN trace :
            (trace[n].reason = "stale Check date" /\ ~trace[n].forced) =>
                \/ trace[n].outcome = "cached"
                \/ /\ trace[n].called
                   /\ trace[n].outcome = "failed" =>
                            ~IsSome(get_payload(cache, trace[n].key))

\* two stale rows in one run, the first forced and the second served from
\* the cache, and a row without check date forced after the budget was spent
C19_Witness ==
    \E n, m, k \in DOMAIN trace :
        /\ n < k /\ n < m
        /\ trace[n].reason = "stale Check date" /\ trace[n].policy
        /\ trace[n].spent
        /\ trace[m].reason = "stale Check date" /\ ~trace[m].forced
        /\ trace[m].outcome = "cached"
        /\ trace[k].reason = "missing Check date" /\ trace[k].policy

(* C20: with --checkdate every row whose recorded check date is missing or *)
(* unparseable is forced, whether or not the budget of the stale rows has  *)
(* been spent, and without spending it.                                    *)
C20_MissingOrUnparseableAlwaysForced ==
    \A n \in DOMAIN trace :
        trace[n].reason \in {"missing Check date", "unrecognized Check date"} =>
            trace[n].policy /\ ~trace[n].spent

\* the entry of a trace record has a blank identifier under a configured
\* identifier column
BlankIdentifier(n) ==
    /\ identifier_column
    /\ normalize_identifier(locals.entries[trace[n].index].identifier) = <<>>

(* C21: a row whose identifier is blank while the identifier column is     *)
(* configured is skipped entirely: no cache lookup, no call of             *)
(* validate_entry, no cache write and no destination row for it; it is     *)
(* counted as skipped and not as failed.                                   *)
C21_BlankIdentifierSkipped ==
    \A n \in DOMAIN trace :
        BlankIdentifier(n) =>
            LET entry == locals.entries[trace[n].index]
            IN  /\ trace[n].outcome = "skipped"
                /\ ~trace[n].looked /\ ~trace[n].called /\ ~trace[n].stored
                /\ entry \in Range(locals.skipped_missing_identifier)
                /\ entry \notin Range(locals.failed_entries)
                /\ entry \notin Range(locals.processed_entries)
                /\ entry \notin Range(locals.write_entries)
                /\ \A j \in DOMAIN target.rows :
                        target.rows[j].row_number # entry.row_number

\* a complete run without --dry-run that met a row with a blank identifier
C21_Witness ==
    /\ pc = "done" /\ ~args.dry_run
    /\ \E n \in DOMAIN trace : BlankIdentifier(n) /\ trace[n].outcome = "skipped"
    /\ \E n \in DOMAIN trace : trace[n].outcome = "cached"

(* C22: at the end of a run every source entry is in exactly one of three  *)
(* tallies: succeeded (it has a verdict), failed (validate_entry raised)   *)
(* or skipped (blank identifier); the sizes of the tallies sum to the      *)
(* number of entries.                                                      *)
C22_TalliesPartitionEntries ==
    pc \in {"finish", "done"} =>
        LET L == locals
            In(list, e) == IF e \in Range(list) THEN 1 ELSE 0
        IN  /\ Len(L.results) = Len(L.processed_entries)
            /\ Len(L.processed_entries) + Len(L.failed_entries)
                    + Len(L.skipped_missing_identifier) = Len(L.entries)
            /\ \A i \in DOMAIN L.entries :
                    In(L.processed_entries, L.entries[i])
                        + In(L.failed_entries, L.entries[i])
                        + In(L.skipped_missing_identifier, L.entries[i]) = 1
            /\ \A n \in DOMAIN trace :
                    LET e == L.entries[trace[n].index]
                    IN  /\ e \in Range(L.processed_entries)
                                <=> trace[n].outcome \in {"cached", "fresh"}
                        /\ e \in Range(L.failed_entries)
                                <=> trace[n].outcome = "failed"
                        /\ e \in Range(L.skipped_missing_identifier)
                                <=> trace[n].outcome = "skipped"

\* a run that ended with one entry in each tally
C22_Witness ==
    /\ pc = "done"
    /\ Len(locals.processed_entries) = 1
    /\ Len(locals.failed_entries) = 1
    /\ Len(locals.skipped_missing_identifier) = 1

(* C23: in upsert-by-identifier mode an identifier that the destination    *)
(* did not hold and that occurs on several verdicts of one run, in one     *)
(* batch or in several, gets exactly one destination row: the first        *)
(* occurrence is appended, the later ones go to that row.                  *)
C23_RepeatedIdentifierOneRow ==
    identifier_column =>
        \A j, k \in DOMAIN target.rows :
            (/\ j # k
             /\ normalize_identifier(Some(target.rows[j].project)) # <<>>) =>
                normalize_identifier(Some(target.rows[j].project))
                    # normalize_identifier(Some(target.rows[k].project))

\* the destination rows lines 561-628 have written for the first n verdicts
\* of the run: source row, comment and verdict of each, in order
WrittenAs(rows, n) ==
    /\ Len(rows) = n
    /\ \A i \in 1..n :
        /\ rows[i].row_number = locals.processed_entries[i].row_number
        /\ rows[i].comment = locals.processed_entries[i].comment_text
        /\ rows[i].raw = json_dumps(locals.results[i].raw_response)

(* C24: in append/overwrite mode the first flush of a run replaces the     *)
(* header and every data row of the destination and each later flush only  *)
(* appends the rows of its batch; after the run the destination is the     *)
(* header followed by exactly the successful rows of the run, in source    *)
(* order.                                                                  *)
C24_OverwriteThenAppend ==
    (~identifier_column /\ pc \in {"rows", "flush", "finish", "done"}
        /\ ~args.dry_run) =>
        /\ target.header = Some(expected_header_row(identifier_column))
        /\ locals.last_written_total_count > 0 =>
                WrittenAs(target.rows, locals.last_written_total_count)
        /\ pc = "done" =>
                /\ locals.last_written_total_count = Len(locals.results)
                /\ WrittenAs(target.rows, Len(locals.results))
                /\ \A i, j \in DOMAIN target.rows :
                        i < j => target.rows[i].row_number
                                    < target.rows[j].row_number

\* a run of three batches of one row: the flush of the first replaced the
\* sheet, the flush of the second appended to it, the third batch failed
C24_Witness ==
    /\ ~identifier_column /\ pc = "done" /\ ~args.dry_run /\ batch_size = 1
    /\ Len(locals.failed_entries) = 1
    /\ locals.failed_entries[1].row_number = 4
    /\ Len(target.rows) = 2

\* the value the destination held for the entry when the run read it: by
\* identifier, failing that by source row number ("" when neither has one)
Recorded(by_identifier, by_row_number, entry) ==
    LET key == normalize_identifier(entry.identifier)
        by_name == IF key # <<>> THEN GetText(by_identifier, key) ELSE None
    IN  OrEmpty(IF IsSome(by_name) THEN by_name
                ELSE GetText(by_row_number, entry.row_number))

(* C25: the Check date and the Model written for a verdict reused from the *)
(* cache are never the timestamp or the model of the current run: they are *)
(* the values the destination held for the same identifier, failing that   *)
(* for the same source row number.                                         *)
C25_ReusedVerdictKeepsItsStamp ==
    (pc = "done" /\ ~args.dry_run /\ ~identifier_column) =>
        \A n \in DOMAIN trace :
            trace[n].outcome = "cached" =>
                LET entry == locals.entries[trace[n].index]
                IN  \A j \in DOMAIN target.rows :
                        target.rows[j].row_number = entry.row_number =>
                            /\ target.rows[j].check_date # locals.check_date
                            /\ target.rows[j].check_date =
                                    Recorded(locals.existing_check_date_by_identifier,
                                             locals.existing_check_date_by_row_number,
                                             entry)
                            /\ target.rows[j].model =
                                    Recorded(locals.existing_model_by_identifier,
                                             locals.existing_model_by_row_number,
                                             entry)

\* the flushed-count watermark of the mode the run is in, and the list it
\* counts: lines 400-404 and 561-565
Watermark ==
    IF locals.use_identifier_updates THEN locals.last_written_write_count
    ELSE locals.last_written_total_count

Produced ==
    IF locals.use_identifier_updates THEN locals.write_entries
    ELSE locals.processed_entries

RECURSIVE ConcatAll(_)
ConcatAll(lists) ==
    IF lists = <<>> THEN <<>> ELSE Head(lists) \o ConcatAll(Tail(lists))

InRun == pc \in {"rows", "flush", "finish", "done"}

\* the flushes so far carried the verdicts below the watermark, each once
\* and in order, and the flush after a batch left nothing behind
FlushedUpToWatermark ==
    InRun =>
        /\ Watermark <= Len(Produced)
        /\ args.dry_run => flushes = <<>> /\ Watermark = 0
        /\ ~args.dry_run =>
            /\ ConcatAll(flushes) = SubSeq(Produced, 1, Watermark)
            /\ \A k \in DOMAIN flushes : flushes[k] # <<>>
            /\ \A k, l \in DOMAIN flushes :
                    k # l => Range(flushes[k]) \cap Range(flushes[l]) = {}
            /\ (pc \in {"finish", "done"}
                    \/ (pc = "rows" /\ locals.index = locals.start)) =>
                        Watermark = Len(Produced)

(* C26: after each batch the flush writes exactly the verdicts added since *)
(* the previous flush, not the whole table; over a run no verdict is sent  *)
(* in more than one flush; the flushed-count watermark never decreases and *)
(* never exceeds the number of verdicts produced.                          *)
C26_Checkpointing ==
    /\ []FlushedUpToWatermark
    /\ [][(InRun /\ InRun') => Watermark' >= Watermark]_vars

\* a run past its second flush: two verdicts went with the first, the third
\* with the second
C26_Witness ==
    /\ InRun /\ ~args.dry_run
    /\ Len(flushes) = 2
    /\ Len(flushes[1]) = 2
    /\ Watermark = 3

\* the sheet rows the index maps to the identifiers of the verdicts the
\* flush at hand carries
MappedRows ==
    LET sent == Slice(locals.write_entries, locals.last_written_write_count)
        keys == {normalize_identifier(sent[i].identifier) : i \in DOMAIN sent}
    IN  {locals.existing_rows_by_project[k] :
            k \in keys \cap DOMAIN locals.existing_rows_by_project}

(* C27: in upsert-by-identifier mode a flush modifies only the destination *)
(* rows whose position the index maps to the identifier of a verdict in    *)
(* that flush and adds rows only past the current extent of the table:     *)
(* every other row keeps its content and its position.                     *)
C27_UnrelatedRowsUndisturbed ==
    [][(pc = "flush" /\ locals.use_identifier_updates /\ ~args.dry_run) =>
            /\ Len(target'.rows) >= Len(target.rows)
            /\ target'.header = target.header
            /\ \A j \in DOMAIN target.rows :
                    j + 1 \notin MappedRows => target'.rows[j] = target.rows[j]]_vars

\* after the first flush of a run on a destination that held a row for "b"
\* and below it a row for "a": the verdict for "a" was written over the
\* second row and the first row is as it was
C27_Witness ==
    /\ identifier_column /\ InRun /\ ~args.dry_run
    /\ Len(flushes) = 1
    /\ Len(target.rows) = 2
    /\ target.rows[1] = OldRow(3, <<"b">>, "", "")
    /\ target.rows[2].check_date = locals.check_date
    /\ normalize_identifier(Some(target.rows[2].project)) = <<"a">>


\* the printed rows are the verdicts of the run, one per verdict, in order
PrintedVerdicts(printed, results) ==
    /\ Len(printed) = Len(results)
    /\ \A i \in DOMAIN results :
        /\ printed[i].row_number = results[i].row_number
        /\ printed[i].is_valid = results[i].is_valid

DryRunSendsNothing ==
    args.dry_run =>
        /\ requests = 0
        /\ PendingCalls = <<>>
        /\ pc = "done" =>
            /\ IsSome(stdout)
            /\ PrintedVerdicts(Get(stdout), locals.results)

(***************************************************************************)
(* C29: with --dry-run the run sends no write request to the destination   *)
(* at any point (no header update, overwrite, clear, append or row         *)
(* update): none has been sent, none is due, and no step of the run        *)
(* changes the destination; the completed run has printed one row per      *)
(* verdict it computed.                                                    *)
(***************************************************************************)
C29_DryRunWritesNothing ==
    /\ []DryRunSendsNothing
    /\ [][args'.dry_run => target' = target]_vars

\* a completed dry run that printed a verdict, over a destination whose
\* header a run without the flag would have rewritten
C29_Witness ==
    /\ pc = "done" /\ args.dry_run
    /\ requests = 0
    /\ Len(locals.results) > 0
    /\ IsSome(stdout) /\ Len(Get(stdout)) > 0
    /\ target.header # Some(expected_header_row(identifier_column))

\* the provider priorities are not exactly 1..N
BadPriorities(conf) == Range(conf.priorities) # 1..Len(conf.priorities)

\* a configured provider has no credentials
MissingCredentials(conf) == \E i \in DOMAIN conf.has_key : ~conf.has_key[i]

ConfigurationError(conf) ==
    \/ ~conf.columns_found
    \/ BadPriorities(conf)
    \/ MissingCredentials(conf)

(***************************************************************************)
(* C30: when the configuration has an error (a required source column is   *)
(* missing, the provider priorities are not exactly 1..N, or a configured  *)
(* provider has no credentials), main() stops before the row loop: startup *)
(* does not complete, no entry is processed, no write request goes to the  *)
(* destination and the cache store is not opened.                          *)
(***************************************************************************)
C30_ConfigurationErrorIsFatal ==
    (start_pc # "off" /\ ConfigurationError(config)) =>
        /\ start_pc # "ready"
        /\ pc = "idle"
        /\ trace = <<>>
        /\ requests = 0
        /\ cache_store = "none"

-----------------------------------------------------------------------------
(* Claims about validate_batch_parallel *)

RowNumbers(list) == [i \in DOMAIN list |-> list[i].row_number]

ResultRows(list) == [i \in DOMAIN list |-> list[i].entry.row_number]

IsAscending(numbers) ==
    \A i, j \in DOMAIN numbers : i < j => numbers[i] <= numbers[j]

(***************************************************************************)
(* C28: when validate_batch_parallel has returned, its successful results  *)
(* are in ascending order of row number whatever the order in which the    *)
(* workers finished, and the batch of rows 5, 2, 4 given to 3 workers      *)
(* returns the successful results of rows 2, 4, 5 in that order.           *)
(***************************************************************************)
C28_SuccessfulResultsByRowNumber ==
    pool_pc = "returned" =>
        /\ IsAscending(ResultRows(successful_results))
        /\ (RowNumbers(pool_entries) = <<5, 2, 4>> /\ max_workers = 3)
            => ResultRows(successful_results) = <<2, 4, 5>>


-----------------------------------------------------------------------------
(* Claims about a corrupt cache file *)

(***************************************************************************)
(* C31: a record whose payload does not parse as JSON never ends the run:  *)
(* the lookup returns absent, the row is handled as a cache miss           *)
(* (validate_entry is called, the verdict is not taken from the record),   *)
(* and unless every provider failed the record is replaced by the fresh    *)
(* payload, so that the key then holds a parseable payload.                *)
(***************************************************************************)
C31_CorruptRecordIsAMiss ==
    /\ pc # "crashed"
    /\ \A i \in DOMAIN trace :
        trace[i].unparseable =>
            /\ trace[i].looked
            /\ trace[i].called
            /\ trace[i].outcome # "cached"
            /\ trace[i].exc # "RuntimeError" =>
                /\ trace[i].stored
                /\ IsSome(get_payload(cache, trace[i].key))


-----------------------------------------------------------------------------
(* Claims about compute_comment_hash *)

\* text is s without its leading and trailing whitespace
IsTrimOf(text, s) ==
    \E i \in 1..(Len(s) + 1), j \in 0..Len(s) :
        /\ text = SubSeq(s, i, j)
        /\ \A k \in 1..(i - 1) : IsSpace(s[k])
        /\ \A k \in (j + 1)..Len(s) : IsSpace(s[k])
        /\ text # <<>> => ~IsSpace(text[1]) /\ ~IsSpace(text[Len(text)])

Trimmed(comment) ==
    LET s == IF comment = None THEN <<>> ELSE Get(comment)
    IN  CHOOSE text \in {SubSeq(s, i, j) : i \in 1..(Len(s) + 1), j \in 0..Len(s)} :
            IsTrimOf(text, s)

(***************************************************************************)
(* C32: the fingerprints of two comments are equal exactly when the texts  *)
(* are equal after trimming leading and trailing whitespace, and an        *)
(* absent, empty or whitespace-only comment has the fingerprint of the     *)
(* empty string.                                                           *)
(***************************************************************************)
C32_HashOfTrimmedText ==
    hashes # <<>> =>
        /\ (hashes[1] = hashes[2]) <=> (Trimmed(comments[1]) = Trimmed(comments[2]))
        /\ \A i \in 1..2 :
            Trimmed(comments[i]) = <<>> => hashes[i] = Sha256(<<>>)

\* an absent comment and a whitespace-only one, and in another pair two
\* comments that differ only in surrounding whitespace
C32_Witness ==
    /\ hashes # <<>>
    /\ \/ comments = <<None, Some(<<" ", "\t">>)>>
       \/ comments = <<Some(<<"o", " ">>), Some(<<"\t", "o">>)>>
    /\ hashes[1] = hashes[2]


-----------------------------------------------------------------------------
(* Claims about threads sharing the client *)

(***************************************************************************)
(* C33: the model name a caller records after its generate call returned   *)
(* is the model of the provider that served that call, also when another   *)
(* thread calls generate on the same client in between.                    *)
(***************************************************************************)
C33_RecordedModelIsTheServingOne ==
    \A t \in DOMAIN callers :
        callers[t].at = "done" =>
            callers[t].recorded = Some(model_name(callers[t].served))


-----------------------------------------------------------------------------
(* Claims about malformed model output *)

\* a response that came with a choice and ended normally or at the length limit
Truncated(resp) ==
    resp.cls = "response" /\ resp.choices /\ resp.finish_reason = "length"

EmptyOrNotJson(resp) ==
    /\ resp.cls = "response" /\ resp.choices
    /\ resp.finish_reason \in {"", "stop"}
    /\ \/ resp.content.kind = "empty"
       \/ json_loads(resp.content) = None

\* the system hints the claim asks for after the failed attempt att
CorrectiveHints(resp, att) ==
    <<IF Truncated(resp) THEN RETRY_TRUNCATED_MESSAGE ELSE RETRY_INVALID_JSON_MESSAGE>>
        \o (IF att = max_retries - 1 THEN <<RETRY_MINIMAL_JSON_MESSAGE>> ELSE <<>>)

Malformed == {resp \in Responses : Truncated(resp) \/ EmptyOrNotJson(resp)}

-----------------------------------------------------------------------------
(* Claims about other request failures *)

\* an APIError or another exception of the request that the except branches
\* do not take for the rejection of a feature still in use
OtherFailures ==
    {resp \in Responses :
        /\ resp.cls \in {"APIError", "Exception"}
        /\ ~FeatureRejected(resp, reasoning_enabled, prompt_cache_enabled)}

(***************************************************************************)
(* C35: a request failure that is not a recognized feature rejection ends  *)
(* the provider's turn at once, whatever the attempt: the error is         *)
(* recorded under the provider's display name, the next request of this    *)
(* generate call goes to the next provider (generate raises when there is  *)
(* none), and no later request of the call goes back to the provider.      *)
(***************************************************************************)
C35_OtherFailureEndsTheTurn ==
    /\ [][\A resp \in OtherFailures :
            (llm_pc = "request" /\ LlmAnswer(resp)) =>
                /\ last_error_messages'
                      = Append(last_error_messages,
                               <<display_name(providers[cur_provider]),
                                 "LLM request failed">>)
                /\ IF cur_provider < Len(providers)
                   THEN /\ llm_pc' = "request"
                        /\ cur_provider' = cur_provider + 1
                        /\ attempt' = 1
                   ELSE llm_pc' = "raised"
       ]_vars
    /\ [][(llm_pc = "request" /\ llm_pc' = "request") =>
            cur_provider' >= cur_provider]_vars

\* The first provider, with no optional feature in use, failed on its first
\* request with a transient error and the second provider is due
C35_Witness ==
    /\ llm_pc = "request"
    /\ cur_provider = 2
    /\ attempt = 1
    /\ ~reasoning_conf[providers[1]]
    /\ ~key_given
    /\ answered = 1
    /\ transient
    /\ last_error_messages = << <<display_name(providers[1]), "LLM request failed">> >>


-----------------------------------------------------------------------------
(* Claims about the append bookkeeping *)

(***************************************************************************)
(* C36: after an append whose response names the range the rows occupy,   *)
(* each appended identifier is recorded at the reported start row onward,  *)
(* in append order, and the next free row is the reported end row + 1;     *)
(* after a response without a parsable range the rows are recorded from    *)
(* the predicted next free row, which advances by their number.            *)
(***************************************************************************)
C36_ReconciledToTheReportedRange ==
    (append_call # None /\ Get(append_call).at = "reconciled") =>
        LET call == Get(append_call)
            reported == call.reported.rows
            start_row == IF reported = None THEN call.before.next_available_row
                         ELSE Get(reported)[1]
        IN  /\ \A n \in DOMAIN call.rows :
                    /\ call.rows[n].key \in DOMAIN locals.existing_rows_by_project
                    /\ locals.existing_rows_by_project[call.rows[n].key]
                          = start_row + n - 1
            /\ locals.next_available_row
                  = IF reported = None
                    THEN call.before.next_available_row + Len(call.rows)
                    ELSE Get(reported)[2] + 1


-----------------------------------------------------------------------------
(* Claims about validate_entry *)

(***************************************************************************)
(* C37: on a miss or a forced row validate_entry hands generate the chat   *)
(* message list, so the row fails only when every provider failed          *)
(* (generate's RuntimeError); when a provider answers with an object of    *)
(* the expected shape the row is a success with the verdict built from it. *)
(***************************************************************************)
C37_AnsweredRowIsASuccess ==
    \A n \in DOMAIN trace :
        trace[n].called =>
            \/ trace[n].outcome = "fresh" /\ IsSome(trace[n].result)
            \/ trace[n].outcome = "failed" /\ trace[n].exc = "RuntimeError"


-----------------------------------------------------------------------------
(* Claims about the resources of one generate call *)

\* the requests of this call up to and including the one that is due: those
\* of the providers that failed, at most max_retries each, and those to the
\* current provider
RequestsUpToNow == (cur_provider - 1) * max_retries + attempt

(***************************************************************************)
(* C38: one generate call sends each provider at most max_retries          *)
(* requests, whatever they are answered with, hence at most N x            *)
(* max_retries requests to N providers, and it terminates: it returns a    *)
(* payload or raises.                                                      *)
(***************************************************************************)
C38_BoundedRequestsAndTermination ==
    /\ [](llm_pc = "request" =>
            /\ cur_provider \in 1..Len(providers)
            /\ attempt \in 1..max_retries
            /\ RequestsUpToNow <= Len(providers) * max_retries)
    /\ [][llm_pc = "request" =>
            \/ /\ llm_pc' = "request"
               /\ \/ cur_provider' = cur_provider /\ attempt' = attempt + 1
                  \/ cur_provider' = cur_provider + 1 /\ attempt' = 1
               /\ RequestsUpToNow' > RequestsUpToNow
            \/ llm_pc' = "returned" /\ IsSome(llm_result')
            \/ llm_pc' = "raised"]_vars
    /\ (llm_pc = "request") ~> (llm_pc \in {"returned", "raised"})

\* The first provider has used all its attempts and the last request the
\* call can send, the last attempt of the last provider, is due
C38_Witness ==
    /\ llm_pc = "request"
    /\ Len(providers) > 1
    /\ cur_provider = Len(providers)
    /\ attempt = max_retries
    /\ provider_errors[1] = <<providers[1], "LLM response is empty">>


-----------------------------------------------------------------------------
(* Claims about successive generate calls *)

(***************************************************************************)
(* C39: switching a feature off after a rejection changes no state of the  *)
(* client or of the provider configuration: whatever an earlier generate   *)
(* call had switched off, the first request of a call to a provider has    *)
(* the reasoning hint when the provider's configuration enables it and the *)
(* prompt-cache key when the call was given one.                           *)
(***************************************************************************)
C39_DisablingLastsOneCall ==
    /\ [](llm_pc = "request" /\ attempt = 1 =>
            /\ reasoning_enabled = reasoning_conf[providers[cur_provider]]
            /\ prompt_cache_enabled = key_given)
    /\ [][reasoning_conf' = reasoning_conf /\ providers' = providers]_vars

\* The call before switched off both features for the first provider, and
\* the first request of this call to that provider has both again
C39_Witness ==
    /\ llm_pc = "request"
    /\ attempt = 1
    /\ earlier # None
    /\ earlier = Some([provider |-> providers[cur_provider],
                       reasoning |-> TRUE, prompt_cache |-> TRUE])
    /\ reasoning_enabled
    /\ prompt_cache_enabled


-----------------------------------------------------------------------------
(* Claims about the two outputs of validate_batch_parallel *)

\* how often the entry is in each output
InSuccessful(entry) ==
    Cardinality({i \in DOMAIN successful_results : successful_results[i].entry = entry})

InFailed(entry) ==
    Cardinality({i \in DOMAIN failed_entries : failed_entries[i] = entry})

Yielded == {i \in DOMAIN future_to_entry : future_to_entry[i].at = "yielded"}

(***************************************************************************)
(* C40: validate_batch_parallel puts every submitted entry in exactly one  *)
(* of its outputs, the successful results or the failed entries: while it  *)
(* collects, each future already yielded accounts for one place and no     *)
(* other entry has one; when it has returned, every entry of the batch is  *)
(* in the two lists together exactly once, whatever the number of workers  *)
(* and the order and outcome of the tasks.                                 *)
(***************************************************************************)
C40_EveryEntryInOneOutput ==
    /\ Len(successful_results) + Len(failed_entries) = Cardinality(Yielded)
    /\ \A i \in DOMAIN future_to_entry :
            InSuccessful(future_to_entry[i].entry) + InFailed(future_to_entry[i].entry)
                = IF i \in Yielded THEN 1 ELSE 0
    /\ pool_pc = "returned" =>
            /\ Len(successful_results) + Len(failed_entries) = Len(pool_entries)
            /\ \A i \in DOMAIN pool_entries :
                    InSuccessful(pool_entries[i]) + InFailed(pool_entries[i]) = 1

\* Three entries went to two workers, the tasks finished in another order
\* than submitted, and the call has returned
C40_Witness ==
    /\ pool_pc = "returned"
    /\ Len(pool_entries) = 3
    /\ max_workers = 2
    /\ Len(successful_results) + Len(failed_entries) = 3
    /\ RowNumbers(failed_entries) # RowNumbers(pool_entries)

=============================================================================
